---- MODULE Spec2Model ----
(***************************************************************************)
(* Model of the dockerfile builder's commit / copy / export pipeline       *)
(* (daemon/containerd/image_events.go, package dockerfile part): the       *)
(* dispatch state, the cache probe, the container lifecycle adapter, the   *)
(* writable-layer handling of performCopy and the mount tracker used by    *)
(* exportImage.                                                            *)
(***************************************************************************)
EXTENDS Naturals, Integers, Sequences, FiniteSets, TLC

VARIABLES
    state,      \* the dispatchState of the running build
    base,       \* the dispatchState the build (and its replay) starts from
    builder,    \* the Builder's options: disableCommit, platform, options.Platform
    env,        \* collaborators: image store / cache, mount tracker, layers, containers
    last,       \* what the build's last handler call did: inputs, outcome, call trace
    phase,      \* "first" | "replay" | "failed"
    script,     \* the steps the first run executed successfully, in order
    ids,        \* the dispatch state's imageID after each step of the first run
    pos,        \* the number of steps the replay has executed
    run,        \* counters: steps taken; containers created and files copied in this run
    fn,         \* a call of one of the package's pure functions: inputs and result
    mem         \* Go memory of run configurations: the heap and the configs that point into it

vars == <<state, base, builder, env, last, phase, script, ids, pos, run, fn, mem>>

(***************************************************************************)
(* Bounds of the model.                                                    *)
(***************************************************************************)
MaxSteps == 4

(***************************************************************************)
(* Go values.  A string slice is nil or a (possibly empty) sequence; the   *)
(* empty image id is the empty string.                                     *)
(***************************************************************************)
NilSlice == [isNil |-> TRUE, elems |-> <<>>]

Slice(s) == [isNil |-> FALSE, elems |-> s]

NoID == ""

NoErr == ""

\* append(a, xs...) for a non-empty xs, or for a non-nil a
append(a, xs) == IF a.isNil /\ xs = <<>> THEN NilSlice ELSE Slice(a.elems \o xs)

copyStringSlice(orig) ==
    IF orig.isNil THEN NilSlice ELSE append(Slice(<<>>), orig.elems)

\* the default shell of the target operating system
defaultShellForOS(os) ==
    IF os = "windows" THEN <<"cmd", "/S", "/C">> ELSE <<"/bin/sh", "-c">>

getShell(c, os) ==
    IF Len(c.Shell.elems) = 0
    THEN append(Slice(<<>>), defaultShellForOS(os))
    ELSE append(Slice(<<>>), c.Shell.elems)

(***************************************************************************)
(* runConfigModifier values are tagged records; applyModifier runs one on  *)
(* the copy.                                                               *)
(***************************************************************************)
withCmd(cmd) == [tag |-> "withCmd", cmd |-> cmd]

withArgsEscaped(argsEscaped) == [tag |-> "withArgsEscaped", argsEscaped |-> argsEscaped]

withCmdComment(comment, platform) ==
    [tag |-> "withCmdComment", comment |-> comment, platform |-> platform]

withCmdCommentString(comment, platform) ==
    [tag |-> "withCmdCommentString", comment |-> comment, platform |-> platform]

withEnv(envv) == [tag |-> "withEnv", env |-> envv]

withEntrypointOverride(cmd, entrypoint) ==
    [tag |-> "withEntrypointOverride", cmd |-> cmd, entrypoint |-> entrypoint]

withoutHealthcheck == [tag |-> "withoutHealthcheck"]

\* faulty variant: the two-token form is written as one token
cmdComment_oneToken(comment, platform, runConfig) ==
    [runConfig EXCEPT
        !.Cmd = append(getShell(runConfig, platform), <<"#(nop) " \o comment>>)]

\* the closure withCmdComment returns
cmdComment(comment, platform, runConfig) ==
    [runConfig EXCEPT
        !.Cmd = append(getShell(runConfig, platform), <<"#(nop) ", comment>>)]

\* the closure withCmdCommentString returns
cmdCommentString(comment, platform, runConfig) ==
    [runConfig EXCEPT
        !.Cmd = append(getShell(runConfig, platform), <<"#(nop) " \o comment>>)]

\* faulty variant: the entrypoint is replaced whatever the command is
entrypointOverride_always(cmd, entrypoint, runConfig) ==
    [runConfig EXCEPT !.Entrypoint = entrypoint]

\* the closure withEntrypointOverride returns
entrypointOverride(cmd, entrypoint, runConfig) ==
    IF Len(cmd.elems) > 0
    THEN [runConfig EXCEPT !.Entrypoint = entrypoint]
    ELSE runConfig

applyModifier(m, runConfig) ==
    CASE m.tag = "withCmd" -> [runConfig EXCEPT !.Cmd = m.cmd]
      [] m.tag = "withArgsEscaped" -> [runConfig EXCEPT !.ArgsEscaped = m.argsEscaped]
      [] m.tag = "withCmdComment" -> cmdComment(m.comment, m.platform, runConfig)
      [] m.tag = "withCmdCommentString" -> cmdCommentString(m.comment, m.platform, runConfig)
      [] m.tag = "withEnv" -> [runConfig EXCEPT !.Env = m.env]
      [] m.tag = "withEntrypointOverride" ->
            entrypointOverride(m.cmd, m.entrypoint, runConfig)
      [] m.tag = "withoutHealthcheck" ->
            [runConfig EXCEPT !.Healthcheck = [isNil |-> FALSE, Test |-> <<"NONE">>]]

RECURSIVE applyModifiers(_, _)
applyModifiers(modifiers, cfg) ==
    IF modifiers = <<>> THEN cfg
    ELSE applyModifiers(Tail(modifiers), applyModifier(Head(modifiers), cfg))

\* a map copy: nil stays nil, otherwise a new map with the same entries
copyMap(m) == IF m.isNil THEN m ELSE [isNil |-> FALSE, kv |-> {e \in m.kv : TRUE}]

copyRunConfig(runConfig, modifiers) ==
    LET cfgCopy == [runConfig EXCEPT
                        !.Cmd = copyStringSlice(runConfig.Cmd),
                        !.Env = copyStringSlice(runConfig.Env),
                        !.Entrypoint = copyStringSlice(runConfig.Entrypoint),
                        !.OnBuild = copyStringSlice(runConfig.OnBuild),
                        !.Shell = copyStringSlice(runConfig.Shell),
                        !.Volumes = copyMap(runConfig.Volumes),
                        !.ExposedPorts = copyMap(runConfig.ExposedPorts),
                        !.Labels = copyMap(runConfig.Labels)]
    IN  applyModifiers(modifiers, cfgCopy)

(***************************************************************************)
(* The cache-relevant hash of a copy instruction.                          *)
(***************************************************************************)
RECURSIVE Join(_, _)
Join(slice, sep) ==
    IF slice = <<>> THEN ""
    ELSE IF Len(slice) = 1 THEN slice[1]
    ELSE slice[1] \o sep \o Join(Tail(slice), sep)

\* hex(sha256(s)), kept symbolic: equal digests only for equal inputs
sha256hex(s) == "sha256(" \o s \o ")"

hashStringSlice(prefix, slice) == prefix \o ":" \o sha256hex(Join(slice, ","))

\* faulty variant: a single source is wrapped like a list of sources
getSourceHashFromInfos_alwaysMulti(infos) ==
    hashStringSlice("multi", [i \in 1..Len(infos) |-> infos[i].hash])

\* faulty variant: several sources are keyed by the first one
getSourceHashFromInfos_firstOnly(infos) ==
    IF Len(infos) >= 1 THEN infos[1].hash
    ELSE hashStringSlice("multi", [i \in 1..Len(infos) |-> infos[i].hash])

\* faulty variant: the digest is taken over the hashes as a set
getSourceHashFromInfos_unordered(infos) ==
    IF Len(infos) = 1 THEN infos[1].hash
    ELSE LET hs == {infos[i].hash : i \in 1..Len(infos)}
             canon == CHOOSE q \in [1..Cardinality(hs) -> hs] :
                         {q[i] : i \in 1..Cardinality(hs)} = hs
         IN  hashStringSlice("multi", canon)

getSourceHashFromInfos(infos) ==
    IF Len(infos) = 1 THEN infos[1].hash
    ELSE hashStringSlice("multi", [i \in 1..Len(infos) |-> infos[i].hash])

(***************************************************************************)
(* Collaborators.  The image store, the cache behind imageProber, the      *)
(* mount tracker (imageSources) and the container manager are reached      *)
(* through interfaces; a call's failure is an input of the handler (fault  *)
(* f.at names the call that fails).                                        *)
(***************************************************************************)
NewID(n) == "I" \o ToString(n)

DefaultSpec == [OS |-> "linux", Architecture |-> "amd64", Variant |-> ""]

getPlatform(b, st) ==
    LET out == IF b.platform.isNil THEN DefaultSpec ELSE b.platform.val
    IN  IF st.operatingSystem # "" THEN [out EXCEPT !.OS = st.operatingSystem] ELSE out

hasFromImage(st) == st.hasFrom

\* the image the cache holds for (parent, configuration, platform), or ""
CachedID(cache, parentID, runConfig, platform) ==
    LET hits == {c \in cache :
                    c.parent = parentID /\ c.config = runConfig /\ c.platform = platform}
    IN  IF hits = {} THEN NoID ELSE (CHOOSE c \in hits : TRUE).image

ProbeErr == "probe: store unreachable"

\* imageProber.Probe: (cachedID, err)
Probe(e, parentID, runConfig, platform, fail) ==
    [cachedID |-> CachedID(e.cache, parentID, runConfig, platform),
     err |-> IF fail THEN ProbeErr ELSE NoErr]

\* the store registers a new image and the cache records the step that made it
StoreImage(e, b, st, containerConfig, config, author, plat, layer) ==
    LET id == NewID(Len(e.images))
    IN  [e EXCEPT
            !.images = Append(@, [id |-> id, parent |-> st.imageID,
                                  ContainerConfig |-> containerConfig,
                                  Config |-> config, Author |-> author,
                                  OS |-> plat.OS, Architecture |-> plat.Architecture,
                                  Variant |-> plat.Variant, layer |-> layer]),
            !.cache = @ \cup {[parent |-> st.imageID, config |-> containerConfig,
                               platform |-> getPlatform(b, st), image |-> id]}]

\* docker.CommitBuildStep(commitCfg): (imageID, err)
CommitBuildStep(e, b, st, commitCfg, fail) ==
    IF fail
    THEN [imageID |-> NoID, err |-> "commit: store error", env |-> e]
    ELSE [imageID |-> NewID(Len(e.images)), err |-> NoErr,
          env |-> StoreImage(e, b, st, commitCfg.ContainerConfig, commitCfg.Config,
                             commitCfg.Author, getPlatform(b, st), 0)]

\* imageSources.Add(newImageMount(image, layer), platform)
Add(e, image, layer, platform) ==
    [e EXCEPT !.mounts = Append(@, [image |-> image, layer |-> layer, platform |-> platform])]

(***************************************************************************)
(* The result of a handler: its error, the dispatch state and the          *)
(* collaborators after it, and what it called, in order.                   *)
(***************************************************************************)
Ev(call, arg) == [call |-> call, arg |-> arg]

Res(err, st, e, events) ==
    [err |-> err, state |-> st, env |-> e, events |-> events]

\* faulty variant: a hit is reported without replacing the image identity
probeCache_keepsImageID(b, dispatchState, runConfig, e, f) ==
    LET p == Probe(e, dispatchState.imageID, runConfig,
                   getPlatform(b, dispatchState), f.at = "probe")
    IN  IF p.cachedID = NoID \/ p.err # NoErr
        THEN [hit |-> FALSE, err |-> p.err, state |-> dispatchState,
              events |-> <<Ev("Probe", "")>>]
        ELSE [hit |-> TRUE, err |-> NoErr, state |-> dispatchState,
              events |-> <<Ev("Probe", ""), Ev("Stdout", " ---> Using cache")>>]

\* faulty variant: a probe error is downgraded to a miss
probeCache_errAsMiss(b, dispatchState, runConfig, e, f) ==
    LET p == Probe(e, dispatchState.imageID, runConfig,
                   getPlatform(b, dispatchState), f.at = "probe")
    IN  IF p.cachedID = NoID \/ p.err # NoErr
        THEN [hit |-> FALSE, err |-> NoErr, state |-> dispatchState,
              events |-> <<Ev("Probe", "")>>]
        ELSE [hit |-> TRUE, err |-> NoErr,
              state |-> [dispatchState EXCEPT !.imageID = p.cachedID],
              events |-> <<Ev("Probe", ""), Ev("Stdout", " ---> Using cache")>>]

\* faulty variant: a hit also installs the probed candidate as the live runConfig
probeCache_setsRunConfig(b, dispatchState, runConfig, e, f) ==
    LET p == Probe(e, dispatchState.imageID, runConfig,
                   getPlatform(b, dispatchState), f.at = "probe")
    IN  IF p.cachedID = NoID \/ p.err # NoErr
        THEN [hit |-> FALSE, err |-> p.err, state |-> dispatchState,
              events |-> <<Ev("Probe", "")>>]
        ELSE [hit |-> TRUE, err |-> NoErr,
              state |-> [dispatchState EXCEPT !.imageID = p.cachedID,
                                              !.runConfig = runConfig],
              events |-> <<Ev("Probe", ""), Ev("Stdout", " ---> Using cache")>>]

\* faulty variant: imageID takes the probe's answer before it is looked at
probeCache_assignsFirst(b, dispatchState, runConfig, e, f) ==
    LET p == Probe(e, dispatchState.imageID, runConfig,
                   getPlatform(b, dispatchState), f.at = "probe")
    IN  IF p.cachedID = NoID \/ p.err # NoErr
        THEN [hit |-> FALSE, err |-> p.err,
              state |-> [dispatchState EXCEPT !.imageID = p.cachedID],
              events |-> <<Ev("Probe", "")>>]
        ELSE [hit |-> TRUE, err |-> NoErr,
              state |-> [dispatchState EXCEPT !.imageID = p.cachedID],
              events |-> <<Ev("Probe", ""), Ev("Stdout", " ---> Using cache")>>]

probeCache(b, dispatchState, runConfig, e, f) ==
    LET p == Probe(e, dispatchState.imageID, runConfig,
                   getPlatform(b, dispatchState), f.at = "probe")
    IN  IF p.cachedID = NoID \/ p.err # NoErr
        THEN [hit |-> FALSE, err |-> p.err, state |-> dispatchState,
              events |-> <<Ev("Probe", "")>>]
        ELSE [hit |-> TRUE, err |-> NoErr,
              state |-> [dispatchState EXCEPT !.imageID = p.cachedID],
              events |-> <<Ev("Probe", ""), Ev("Stdout", " ---> Using cache")>>]

\* faulty variant: the warnings are written after the Running in line
create_runningFirst(b, runConfig, e, f) ==
    IF f.at = "create"
    THEN [id |-> "", err |-> "create: failed", env |-> e, events |-> <<Ev("Create", "")>>]
    ELSE LET ctrID == "c" \o ToString(e.containers + 1)
         IN  [id |-> ctrID, err |-> NoErr,
              env |-> [e EXCEPT !.containers = @ + 1],
              events |-> <<Ev("Create", ctrID)>>
                         \o <<Ev("Stdout", " ---> Running in " \o ctrID)>>
                         \o [i \in 1..Len(f.warnings) |->
                                Ev("Stdout", " ---> [Warning] " \o f.warnings[i])]]

create(b, runConfig, e, f) ==
    IF f.at = "create"
    THEN [id |-> "", err |-> "create: failed", env |-> e, events |-> <<Ev("Create", "")>>]
    ELSE LET ctrID == "c" \o ToString(e.containers + 1)
         IN  [id |-> ctrID, err |-> NoErr,
              env |-> [e EXCEPT !.containers = @ + 1],
              events |-> <<Ev("Create", ctrID)>>
                         \o [i \in 1..Len(f.warnings) |->
                                Ev("Stdout", " ---> [Warning] " \o f.warnings[i])]
                         \o <<Ev("Stdout", " ---> Running in " \o ctrID)>>]

probeAndCreate(b, dispatchState, runConfig, e, f) ==
    LET pc == probeCache(b, dispatchState, runConfig, e, f)
    IN  IF pc.err # NoErr \/ pc.hit
        THEN [id |-> "", err |-> pc.err, state |-> pc.state, env |-> e,
              events |-> pc.events, hit |-> pc.hit]
        ELSE LET c == create(b, runConfig, e, f)
             IN  [id |-> c.id, err |-> c.err, state |-> pc.state, env |-> c.env,
                  events |-> pc.events \o c.events, hit |-> FALSE]

\* faulty variant: the candidate is sent as the image's configuration
commitConfig_candidateAsConfig(dispatchState, id, containerConfig) ==
    [Author |-> dispatchState.maintainer,
     Config |-> containerConfig,
     ContainerConfig |-> containerConfig,
     ContainerID |-> id]

\* the backend.CommitConfig commitContainer builds
commitConfig(dispatchState, id, containerConfig) ==
    [Author |-> dispatchState.maintainer,
     Config |-> copyRunConfig(dispatchState.runConfig, <<>>),
     ContainerConfig |-> containerConfig,
     ContainerID |-> id]

\* faulty variant: the dry-run switch is not looked at
commitContainer_noDryRun(b, dispatchState, id, containerConfig, e, f) ==
    LET commitCfg == commitConfig(dispatchState, id, containerConfig)
        r == CommitBuildStep(e, b, dispatchState, commitCfg, f.at = "commitbuildstep")
    IN  Res(r.err, [dispatchState EXCEPT !.imageID = r.imageID], r.env,
            <<Ev("CommitBuildStep", commitCfg)>>)

commitContainer(b, dispatchState, id, containerConfig, e, f) ==
    IF b.disableCommit
    THEN Res(NoErr, dispatchState, e, <<>>)
    ELSE LET commitCfg == commitConfig(dispatchState, id, containerConfig)
             r == CommitBuildStep(e, b, dispatchState, commitCfg, f.at = "commitbuildstep")
         IN  Res(r.err, [dispatchState EXCEPT !.imageID = r.imageID], r.env,
                 <<Ev("CommitBuildStep", commitCfg)>>)

\* faulty variant: a commit without a base image is silently skipped
commit_silentNoFrom(b, dispatchState, comment, e, f) ==
    IF b.disableCommit \/ ~hasFromImage(dispatchState)
    THEN Res(NoErr, dispatchState, e, <<>>)
    ELSE LET cfg == copyRunConfig(dispatchState.runConfig,
                                  <<withCmdComment(comment, dispatchState.operatingSystem)>>)
             pc == probeAndCreate(b, dispatchState, cfg, e, f)
         IN  IF pc.err # NoErr \/ pc.id = ""
             THEN Res(pc.err, pc.state, pc.env, pc.events)
             ELSE LET cc == commitContainer(b, pc.state, pc.id, cfg, pc.env, f)
                  IN  Res(cc.err, cc.state, cc.env, pc.events \o cc.events)

\* the candidate configuration commit derives and probes with
commitCandidate(dispatchState, comment) ==
    copyRunConfig(dispatchState.runConfig,
                  <<withCmdComment(comment, dispatchState.operatingSystem)>>)

commit(b, dispatchState, comment, e, f) ==
    IF b.disableCommit
    THEN Res(NoErr, dispatchState, e, <<>>)
    ELSE IF ~hasFromImage(dispatchState)
    THEN Res("Please provide a source image with from prior to commit",
             dispatchState, e, <<>>)
    ELSE LET runConfigWithCommentCmd == commitCandidate(dispatchState, comment)
             pc == probeAndCreate(b, dispatchState, runConfigWithCommentCmd, e, f)
         IN  IF pc.err # NoErr \/ pc.id = ""
             THEN Res(pc.err, pc.state, pc.env, pc.events)
             ELSE LET cc == commitContainer(b, pc.state, pc.id,
                                            runConfigWithCommentCmd, pc.env, f)
                  IN  Res(cc.err, cc.state, cc.env, pc.events \o cc.events)

(***************************************************************************)
(* exportImage and performCopy.                                            *)
(***************************************************************************)
\* imageSources.Get(imageID): the mount of a stored image; its Image() is an
\* *image.Image unless the collaborator hands out another builder.Image
GetMount(e, imageID, f) ==
    LET found == {i \in 1..Len(e.images) : e.images[i].id = imageID}
    IN  IF f.at = "get" \/ found = {}
        THEN [err |-> "image not found", image |-> [isImage |-> FALSE, id |-> NoID,
                OS |-> "", Architecture |-> "", Variant |-> ""]]
        ELSE LET img == e.images[CHOOSE i \in found : TRUE]
             IN  [err |-> NoErr,
                  image |-> [isImage |-> f.at # "ptype", id |-> img.id, OS |-> img.OS,
                             Architecture |-> img.Architecture, Variant |-> img.Variant]]

\* faulty variant: imageID is replaced before CreateImage's error is looked at
createChildImage_early(b, st, newLayer, platform, runConfig, e, f) ==
    IF f.at = "marshal"
    THEN Res("failed to encode image config: marshal", st, e, <<Ev("MarshalJSON", "")>>)
    ELSE IF f.at = "createimage"
    THEN Res("failed to export image: store error", [st EXCEPT !.imageID = NoID], e,
             <<Ev("MarshalJSON", ""), Ev("CreateImage", "")>>)
    ELSE LET exportedID == NewID(Len(e.images))
             e3 == StoreImage(e, b, st, runConfig, copyRunConfig(st.runConfig, <<>>),
                              st.maintainer, platform, newLayer)
         IN  Res(NoErr, [st EXCEPT !.imageID = exportedID],
                 Add(e3, exportedID, newLayer, platform),
                 <<Ev("MarshalJSON", ""), Ev("CreateImage", exportedID),
                   Ev("Add", exportedID)>>)

\* faulty variant: the mount is not registered again with the finished image
createChildImage_noReRegister(b, st, newLayer, platform, runConfig, e, f) ==
    IF f.at = "marshal"
    THEN Res("failed to encode image config: marshal", st, e, <<Ev("MarshalJSON", "")>>)
    ELSE IF f.at = "createimage"
    THEN Res("failed to export image: store error", st, e,
             <<Ev("MarshalJSON", ""), Ev("CreateImage", "")>>)
    ELSE LET exportedID == NewID(Len(e.images))
             e3 == StoreImage(e, b, st, runConfig, copyRunConfig(st.runConfig, <<>>),
                              st.maintainer, platform, newLayer)
         IN  Res(NoErr, [st EXCEPT !.imageID = exportedID], e3,
                 <<Ev("MarshalJSON", ""), Ev("CreateImage", exportedID)>>)

\* exportImage from image.NewChildImage on: encode the image, register it with
\* the store, replace imageID and re-register the mount with the image
createChildImage(b, st, newLayer, platform, runConfig, e, f) ==
    IF f.at = "marshal"
    THEN Res("failed to encode image config: marshal", st, e, <<Ev("MarshalJSON", "")>>)
    ELSE IF f.at = "createimage"
    THEN Res("failed to export image: store error", st, e,
             <<Ev("MarshalJSON", ""), Ev("CreateImage", "")>>)
    ELSE LET exportedID == NewID(Len(e.images))
             e3 == StoreImage(e, b, st, runConfig, copyRunConfig(st.runConfig, <<>>),
                              st.maintainer, platform, newLayer)
         IN  Res(NoErr, [st EXCEPT !.imageID = exportedID],
                 Add(e3, exportedID, newLayer, platform),
                 <<Ev("MarshalJSON", ""), Ev("CreateImage", exportedID),
                   Ev("Add", exportedID)>>)

exportImage(b, st, layer, parent, runConfig, e, f) ==
    IF f.at = "layercommit"
    THEN Res("layer commit failed", st, e, <<Ev("layer.Commit", "")>>)
    ELSE LET newLayer == e.nextLayer
             e1 == [e EXCEPT !.nextLayer = @ + 1, !.committed = @ \cup {newLayer}]
         IN  IF ~parent.isImage
             THEN Res("unexpected image type", st, e1, <<Ev("layer.Commit", "")>>)
             ELSE LET platform == [OS |-> parent.OS, Architecture |-> parent.Architecture,
                                   Variant |-> parent.Variant]
                      e2 == Add(e1, NoID, newLayer, platform)
                      ev2 == <<Ev("layer.Commit", ""), Ev("Add", NoID)>>
                      x == createChildImage(b, st, newLayer, platform, runConfig, e2, f)
                  IN  [x EXCEPT !.events = ev2 \o @]

\* faulty variant: the comment leaves the source hash out
copyComment_noHash(inst) ==
    LET chownComment == IF inst.chownStr # "" THEN "--chown=" \o inst.chownStr \o " " ELSE ""
    IN  inst.cmdName \o " " \o chownComment \o " in " \o inst.dest \o " "

\* the comment performCopy embeds in its candidate configuration
copyComment(inst) ==
    LET srcHash == getSourceHashFromInfos(inst.infos)
        chownComment == IF inst.chownStr # "" THEN "--chown=" \o inst.chownStr \o " " ELSE ""
    IN  inst.cmdName \o " " \o chownComment \o srcHash \o " in " \o inst.dest \o " "

copyCandidate(st, inst) ==
    copyRunConfig(st.runConfig, <<withCmdCommentString(copyComment(inst), st.operatingSystem)>>)

\* faulty variant: the layer is released at the end of the successful path only
Release_onSuccessOnly(r, rwLayer) ==
    IF r.err # NoErr THEN r
    ELSE [r EXCEPT !.env = [@ EXCEPT !.live = @ \ {rwLayer}, !.released = @ + 1],
                   !.events = @ \o <<Ev("Release", "")>>]

\* rwLayer.Release(), deferred: runs when performCopy returns
Release(r, rwLayer) ==
    [r EXCEPT !.env = [@ EXCEPT !.live = @ \ {rwLayer}, !.released = @ + 1],
              !.events = @ \o <<Ev("Release", "")>>]

\* the per-source copy loop: the sources copied before the first failure
copyLoop(inst, id, f) ==
    LET n == IF f.at = "copy" /\ f.idx <= Len(inst.infos) THEN f.idx ELSE Len(inst.infos)
    IN  [failed |-> f.at = "copy" /\ f.idx <= Len(inst.infos),
         events |-> [i \in 1..n |->
                        Ev("performCopyForInfo",
                           inst.infos[i].hash \o " as "
                           \o (IF inst.preserveOwnership THEN "preserved" ELSE id))]]

\* faulty variant: a chown string that does not resolve falls back to root
copyIntoLayer_rootFallback(b, st, inst, parent, rwLayer, runConfigWithCommentCmd, e, f) ==
    IF f.at = "dest"
    THEN Res("invalid " \o inst.cmdName, st, e, <<Ev("createDestInfo", "")>>)
    ELSE LET id == IF inst.chownStr # "" /\ f.at # "chown"
                   THEN "chown:" \o inst.chownStr ELSE "root"
             ev == IF inst.chownStr # ""
                   THEN <<Ev("createDestInfo", ""), Ev("parseChownFlag", inst.chownStr)>>
                   ELSE <<Ev("createDestInfo", "")>>
             loop == copyLoop(inst, id, f)
         IN  IF loop.failed
             THEN Res("failed to copy files", st, e, ev \o loop.events)
             ELSE LET x == exportImage(b, st, rwLayer, parent, runConfigWithCommentCmd, e, f)
                  IN  [x EXCEPT !.events = ev \o loop.events \o @]

\* performCopy from the acquisition of the writable layer on
copyIntoLayer(b, st, inst, parent, rwLayer, runConfigWithCommentCmd, e, f) ==
    IF f.at = "dest"
    THEN Res("invalid " \o inst.cmdName, st, e, <<Ev("createDestInfo", "")>>)
    ELSE IF inst.chownStr # "" /\ f.at = "chown"
    THEN Res(IF b.options.Platform # "windows"
             THEN "unable to convert uid/gid chown string to host mapping"
             ELSE "unable to map container user account name to SID",
             st, e, <<Ev("createDestInfo", ""), Ev("parseChownFlag", inst.chownStr)>>)
    ELSE LET id == IF inst.chownStr # "" THEN "chown:" \o inst.chownStr ELSE "root"
             ev == IF inst.chownStr # ""
                   THEN <<Ev("createDestInfo", ""), Ev("parseChownFlag", inst.chownStr)>>
                   ELSE <<Ev("createDestInfo", "")>>
             loop == copyLoop(inst, id, f)
         IN  IF loop.failed
             THEN Res("failed to copy files", st, e, ev \o loop.events)
             ELSE LET x == exportImage(b, st, rwLayer, parent, runConfigWithCommentCmd, e, f)
                  IN  [x EXCEPT !.events = ev \o loop.events \o @]

\* performCopy after a cache miss
copyOnMiss(b, st, inst, runConfigWithCommentCmd, e, f) ==
    LET imgMount == GetMount(e, st.imageID, f)
    IN  IF imgMount.err # NoErr
        THEN Res("failed to get destination image: " \o imgMount.err, st, e,
                 <<Ev("Get", st.imageID)>>)
        ELSE IF f.at = "newrwlayer"
        THEN Res("new rw layer failed", st, e, <<Ev("Get", st.imageID), Ev("NewRWLayer", "")>>)
        ELSE LET rwLayer == e.nextLayer
                 e1 == [e EXCEPT !.nextLayer = @ + 1, !.live = @ \cup {rwLayer},
                                 !.acquired = @ + 1]
                 r == copyIntoLayer(b, st, inst, imgMount.image, rwLayer,
                                    runConfigWithCommentCmd, e1, f)
             IN  Release([r EXCEPT !.events = <<Ev("Get", st.imageID),
                                                Ev("NewRWLayer", "")>> \o @],
                         rwLayer)

\* faulty variant: a cache hit does not end the step
performCopy_noShortCircuit(b, st, inst, e, f) ==
    LET runConfigWithCommentCmd == copyCandidate(st, inst)
        pc == probeCache(b, st, runConfigWithCommentCmd, e, f)
    IN  IF pc.err # NoErr
        THEN Res(pc.err, pc.state, e, pc.events)
        ELSE LET r == copyOnMiss(b, pc.state, inst, runConfigWithCommentCmd, e, f)
             IN  [r EXCEPT !.events = pc.events \o @]

performCopy(b, st, inst, e, f) ==
    LET runConfigWithCommentCmd == copyCandidate(st, inst)
        pc == probeCache(b, st, runConfigWithCommentCmd, e, f)
    IN  IF pc.err # NoErr \/ pc.hit
        THEN Res(pc.err, pc.state, e, pc.events)
        ELSE LET r == copyOnMiss(b, st, inst, runConfigWithCommentCmd, e, f)
             IN  [r EXCEPT !.events = pc.events \o @]

(***************************************************************************)
(* The inputs the model draws from.                                        *)
(***************************************************************************)
EmptyMap == [isNil |-> TRUE, kv |-> {}]

NoHealthcheck == [isNil |-> TRUE, Test |-> <<>>]

ConfigA ==
    [Cmd |-> NilSlice, Env |-> NilSlice, Entrypoint |-> NilSlice, OnBuild |-> NilSlice,
     Shell |-> NilSlice, WorkingDir |-> "", ArgsEscaped |-> FALSE,
     Healthcheck |-> NoHealthcheck, Volumes |-> EmptyMap, ExposedPorts |-> EmptyMap,
     Labels |-> EmptyMap]

ConfigB ==
    [Cmd |-> Slice(<<"run.exe">>), Env |-> Slice(<<"A=1">>), Entrypoint |-> Slice(<<>>),
     OnBuild |-> NilSlice, Shell |-> Slice(<<"powershell", "-command">>),
     WorkingDir |-> "/w", ArgsEscaped |-> TRUE,
     Healthcheck |-> [isNil |-> FALSE, Test |-> <<"CMD", "ok">>],
     Volumes |-> [isNil |-> FALSE, kv |-> {<<"/v", "">>}], ExposedPorts |-> EmptyMap,
     Labels |-> [isNil |-> FALSE, kv |-> {<<"k", "v">>}]]

Builders ==
    {[disableCommit |-> d, platform |-> p.platform, options |-> [Platform |-> p.name]] :
        d \in BOOLEAN,
        p \in {[platform |-> [isNil |-> TRUE, val |-> DefaultSpec], name |-> ""],
               [platform |-> [isNil |-> FALSE,
                              val |-> [OS |-> "linux", Architecture |-> "arm64",
                                       Variant |-> "v8"]],
                name |-> "windows"]}}

BaseImageID == NewID(0)

BaseStates ==
    {[imageID |-> IF h THEN BaseImageID ELSE NoID, hasFrom |-> h, runConfig |-> c.cfg,
      maintainer |-> "dev", operatingSystem |-> c.os] :
        h \in BOOLEAN, c \in {[cfg |-> ConfigA, os |-> ""], [cfg |-> ConfigB, os |-> "windows"]}}

Comments == {"ENV A=1", "LABEL k=v"}

HashH == "file:aaa"

HashH2 == "file:bbb"

Inst(cmdName, chownStr, hashes) ==
    [cmdName |-> cmdName, chownStr |-> chownStr, dest |-> "/dst",
     infos |-> [i \in 1..Len(hashes) |-> [hash |-> hashes[i]]],
     allowLocalDecompression |-> cmdName = "ADD", preserveOwnership |-> FALSE]

Insts ==
    {Inst("COPY", "", <<HashH>>), Inst("COPY", "", <<HashH2>>),
     Inst("ADD", "1000:1000", <<HashH, HashH2>>)}

NoInst == Inst("", "", <<>>)

WarningSets == {<<>>, <<"deprecated option", "no swap limit">>}

CommitFaults == {"none", "probe", "create", "commitbuildstep"}

CopyFaults ==
    {"none", "probe", "get", "newrwlayer", "dest", "chown", "copy", "layercommit",
     "ptype", "marshal", "createimage"}

(***************************************************************************)
(* The state machine: a first build runs steps of its choice, a replay     *)
(* runs the same steps again from the same base, and further builds share  *)
(* the store and the cache.                                                *)
(***************************************************************************)
NoLast ==
    [op |-> "none", comment |-> "", inst |-> NoInst, err |-> NoErr, events |-> <<>>,
     pre |-> CHOOSE st \in BaseStates : TRUE, preCache |-> {}, candidate |-> ConfigA,
     probeErr |-> FALSE, acquired |-> 0, preMounts |-> 0, warnings |-> <<>>]

\* no pure function called, no configuration in memory
NoCall == [op |-> "none"]

NoMem == [heap |-> <<>>]

Init ==
    /\ builder \in Builders
    /\ base \in BaseStates
    /\ state = base
    /\ env = [images |-> <<[id |-> BaseImageID, parent |-> NoID, ContainerConfig |-> ConfigA,
                            Config |-> base.runConfig, Author |-> "",
                            OS |-> IF base.operatingSystem = "" THEN "linux"
                                   ELSE base.operatingSystem,
                            Architecture |-> "amd64", Variant |-> "", layer |-> 0]>>,
              cache |-> {}, mounts |-> <<>>, committed |-> {}, live |-> {},
              acquired |-> 0, released |-> 0, nextLayer |-> 1, containers |-> 0]
    /\ last = NoLast
    /\ phase = "first"
    /\ script = <<>>
    /\ ids = <<>>
    /\ pos = 0
    /\ run = [steps |-> 0, created |-> 0, materialized |-> 0]
    /\ fn = NoCall
    /\ mem = NoMem

Calls(events, call) == Cardinality({i \in 1..Len(events) : events[i].call = call})

\* the driver may run step s now
CanStep(s) ==
    /\ run.steps < MaxSteps
    /\ \/ phase = "first"
       \/ phase = "replay" /\ pos < Len(script) /\ script[pos + 1] = s

\* the driver takes the handler's result: a failed step aborts the build
Took(s, f, r, candidate) ==
    /\ state' = r.state
    /\ env' = r.env
    /\ last' = [op |-> s.op, comment |-> s.comment, inst |-> s.inst, err |-> r.err,
                events |-> r.events, pre |-> state, preCache |-> env.cache,
                candidate |-> candidate,
                probeErr |-> f.at = "probe" /\ Calls(r.events, "Probe") > 0,
                acquired |-> r.env.acquired - env.acquired,
                preMounts |-> Len(env.mounts),
                warnings |-> f.warnings]
    /\ run' = [steps |-> run.steps + 1,
               created |-> run.created + Calls(r.events, "Create"),
               materialized |-> run.materialized + Calls(r.events, "performCopyForInfo")]
    /\ IF r.err # NoErr
       THEN phase' = "failed" /\ UNCHANGED <<script, ids, pos>>
       ELSE IF phase = "first"
       THEN /\ script' = Append(script, s)
            /\ ids' = Append(ids, r.state.imageID)
            /\ UNCHANGED <<phase, pos>>
       ELSE pos' = pos + 1 /\ UNCHANGED <<phase, script, ids>>
    /\ UNCHANGED <<base, builder, fn, mem>>

Commit ==
    \E comment \in Comments, at \in CommitFaults :
      \E ws \in IF at = "none" THEN WarningSets ELSE {<<>>} :
        LET s == [op |-> "commit", comment |-> comment, inst |-> NoInst]
            f == [at |-> at, idx |-> 1, warnings |-> ws]
        IN  /\ CanStep(s)
            /\ Took(s, f, commit(builder, state, comment, env, f),
                    commitCandidate(state, comment))

PerformCopy ==
    \E inst \in Insts, at \in CopyFaults :
      \E idx \in 1..(IF at = "copy" THEN Len(inst.infos) ELSE 1) :
        LET s == [op |-> "copy", comment |-> "", inst |-> inst]
            f == [at |-> at, idx |-> idx, warnings |-> <<>>]
        IN  /\ CanStep(s)
            /\ Took(s, f, performCopy(builder, state, inst, env, f),
                    copyCandidate(state, inst))

\* the same instructions are built again from the same base image
StartReplay ==
    /\ phase = "first"
    /\ script # <<>>
    /\ phase' = "replay"
    /\ state' = base
    /\ pos' = 0
    /\ run' = [run EXCEPT !.created = 0, !.materialized = 0]
    /\ last' = NoLast
    /\ UNCHANGED <<base, builder, env, script, ids, fn, mem>>

\* another build starts from the same base image, sharing store and cache
NewBuild ==
    /\ phase = "replay"
    /\ pos = Len(script)
    /\ phase' = "first"
    /\ state' = base
    /\ script' = <<>>
    /\ ids' = <<>>
    /\ pos' = 0
    /\ run' = [run EXCEPT !.created = 0, !.materialized = 0]
    /\ last' = NoLast
    /\ UNCHANGED <<base, builder, env, fn, mem>>

Next == Commit \/ PerformCopy \/ StartReplay \/ NewBuild

Spec == Init /\ [][Next]_vars

(***************************************************************************)
(* Handlers the dispatchers call on their own: commitContainer (after a    *)
(* RUN step) and probeCache, on the running dispatch state or on the one a *)
(* build over the same cache starts from, between the metadata steps of a  *)
(* build.  The call ends the behaviour.                                    *)
(***************************************************************************)
ContainerIDs == {"c9"}

\* the candidate configurations the steps of the model derive from st
Candidates(st) ==
    {commitCandidate(st, c) : c \in Comments} \cup {copyCandidate(st, i) : i \in Insts}

Called(op, st, f, r, candidate) ==
    /\ phase = "first"
    /\ run.steps < MaxSteps
    /\ state' = r.state
    /\ env' = r.env
    /\ last' = [op |-> op, comment |-> "", inst |-> NoInst, err |-> r.err,
                events |-> r.events, pre |-> st, preCache |-> env.cache,
                candidate |-> candidate,
                probeErr |-> f.at = "probe" /\ Calls(r.events, "Probe") > 0,
                acquired |-> r.env.acquired - env.acquired,
                preMounts |-> Len(env.mounts),
                warnings |-> f.warnings]
    /\ phase' = "called"
    /\ run' = [run EXCEPT !.steps = @ + 1]
    /\ UNCHANGED <<base, builder, script, ids, pos, fn, mem>>

CommitContainer ==
    \E id \in ContainerIDs, at \in {"none", "commitbuildstep"} :
      \E containerConfig \in {commitCandidate(state, c) : c \in Comments} :
        LET f == [at |-> at, idx |-> 1, warnings |-> <<>>]
        IN  Called("commitContainer", state, f,
                   commitContainer(builder, state, id, containerConfig, env, f),
                   containerConfig)

ProbeCache ==
    \E st \in {state, base}, at \in {"none", "probe"} :
      \E runConfig \in Candidates(st) :
        LET f == [at |-> at, idx |-> 1, warnings |-> <<>>]
            p == probeCache(builder, st, runConfig, env, f)
        IN  Called("probeCache", st, f, Res(p.err, p.state, env, p.events), runConfig)

NextCalls == Commit \/ CommitContainer \/ ProbeCache

SpecCalls == Init /\ [][NextCalls]_vars

(***************************************************************************)
(* The pure functions of the package, called on their own: copyRunConfig   *)
(* with a sequence of modifiers, and getSourceHashFromInfos, of which the  *)
(* previous call is remembered next to the current one.                    *)
(***************************************************************************)
MaxMods == 2

MaxSources == 2

HashD == "dir:ccc"

Hashes == {HashH, HashH2, HashD}

ConfigC ==
    [ConfigB EXCEPT !.Shell = Slice(<<>>), !.Entrypoint = Slice(<<"/entry">>),
                    !.Cmd = Slice(<<>>)]

Configs == {ConfigA, ConfigB, ConfigC}

Slices == {NilSlice, Slice(<<>>), Slice(<<"sh", "-x">>)}

Modifiers ==
    {withCmd(Slice(<<"echo">>)), withEnv(Slice(<<"B=2">>)), withArgsEscaped(TRUE),
     withoutHealthcheck}
    \cup {withCmdComment("ENV A=1", os) : os \in {"linux", "windows"}}
    \cup {withCmdCommentString("COPY file:aaa in /dst ", os) : os \in {"linux", "windows"}}
    \cup {withEntrypointOverride(cmd, entrypoint) : cmd \in Slices, entrypoint \in Slices}

ModifierSeqs == UNION {[1..n -> Modifiers] : n \in 0..MaxMods}

InfoLists ==
    UNION {[1..n -> {[hash |-> h] : h \in Hashes}] : n \in 0..MaxSources}

CopyRunConfig ==
    /\ fn = NoCall
    /\ \E runConfig \in Configs, modifiers \in ModifierSeqs :
        /\ fn' = [op |-> "copyRunConfig", base |-> runConfig, modifiers |-> modifiers,
                  result |-> copyRunConfig(runConfig, modifiers)]
        /\ UNCHANGED <<state, base, builder, env, last, phase, script, ids, pos, run, mem>>

GetSourceHashFromInfos ==
    /\ fn = NoCall \/ (fn.op = "getSourceHashFromInfos" /\ fn.before = <<>>)
    /\ \E infos \in InfoLists :
        /\ fn' = [op |-> "getSourceHashFromInfos", infos |-> infos,
                  result |-> getSourceHashFromInfos(infos),
                  before |-> IF fn.op = "getSourceHashFromInfos"
                             THEN <<[infos |-> fn.infos, result |-> fn.result]>>
                             ELSE <<>>]
        /\ UNCHANGED <<state, base, builder, env, last, phase, script, ids, pos, run, mem>>

NextFn == CopyRunConfig \/ GetSourceHashFromInfos

SpecFn == Init /\ [][NextFn]_vars

(***************************************************************************)
(* copyRunConfig on Go memory.  A configuration holds its slices, maps and *)
(* its Healthcheck by reference: a field is NilRef or the name of a piece  *)
(* of storage <<n, field, k>>, allocated for configuration n (0 is the     *)
(* base) by the copy (k = 0) or for the k-th modifier; mem.heap gives the  *)
(* content of each piece.  Scalar fields are held by value.                *)
(***************************************************************************)
NilRef == <<>>

SliceFields == {"Cmd", "Env", "Entrypoint", "OnBuild", "Shell"}

MapFields == {"Volumes", "ExposedPorts", "Labels"}

RefFields == SliceFields \cup MapFields \cup {"Healthcheck"}

ScalarFields == {"WorkingDir", "ArgsEscaped"}

\* the nil value of a field
NilOf(f) ==
    IF f \in SliceFields THEN NilSlice
    ELSE IF f \in MapFields THEN EmptyMap
    ELSE NoHealthcheck

\* what a configuration in memory reads as
Value(heap, cfg) ==
    [f \in RefFields \cup ScalarFields |->
        IF f \in ScalarFields THEN cfg[f]
        ELSE IF cfg[f] = NilRef THEN NilOf(f)
        ELSE heap[cfg[f]]]

\* the references of configuration n when each non-nil field of fields gets
\* storage of its own, and that storage holding what value has there
OwnRefs(value, n, k, fields) ==
    [f \in fields |-> IF value[f].isNil THEN NilRef ELSE <<n, f, k>>]

OwnHeap(value, n, k, fields) ==
    [id \in {<<n, f, k>> : f \in {g \in fields : ~value[g].isNil}} |-> value[id[2]]]

\* the fields a modifier assigns
Assigned(m) ==
    CASE m.tag \in {"withCmd", "withCmdComment", "withCmdCommentString"} -> {"Cmd"}
      [] m.tag = "withEnv" -> {"Env"}
      [] m.tag = "withArgsEscaped" -> {}
      [] m.tag = "withEntrypointOverride" ->
            IF Len(m.cmd.elems) > 0 THEN {"Entrypoint"} ELSE {}
      [] m.tag = "withoutHealthcheck" -> {"Healthcheck"}

\* modifier(&cfgCopy), the k-th one: the assigned field refers to the slice the
\* modifier was built with or to the value it allocates, the rest is kept
applyModifierMem(m, k, n, x) ==
    LET new == applyModifier(m, Value(x.heap, x.cfg))
        own == OwnRefs(new, n, k, Assigned(m))
    IN  [heap |-> OwnHeap(new, n, k, Assigned(m)) @@ x.heap,
         cfg |-> [f \in RefFields \cup ScalarFields |->
                    IF f \in ScalarFields THEN new[f]
                    ELSE IF f \in Assigned(m) THEN own[f]
                    ELSE x.cfg[f]]]

RECURSIVE applyModifiersMem(_, _, _, _)
applyModifiersMem(modifiers, k, n, x) ==
    IF k > Len(modifiers) THEN x
    ELSE applyModifiersMem(modifiers, k + 1, n, applyModifierMem(modifiers[k], k, n, x))

\* the fields copyRunConfig gives storage of their own
copyFields == SliceFields \cup MapFields

\* copyRunConfig(runConfig, modifiers...), the result being configuration n:
\* cfgCopy := *runConfig keeps every reference, then the slices and maps are
\* copied into new storage, then the modifiers run
copyRunConfigMem(heap, runConfig, n, modifiers) ==
    LET old == Value(heap, runConfig)
        own == OwnRefs(old, n, 0, copyFields)
        cfgCopy == [f \in RefFields \cup ScalarFields |->
                       IF f \in copyFields THEN own[f] ELSE runConfig[f]]
    IN  applyModifiersMem(modifiers, 1, n,
                          [heap |-> OwnHeap(old, n, 0, copyFields) @@ heap, cfg |-> cfgCopy])

\* a write through a reference: an element of a slice, an entry of a map, a
\* field of the HealthConfig
Written(f, content) ==
    IF f \in SliceFields
    THEN Slice([content.elems EXCEPT ![1] = "written"])
    ELSE IF f \in MapFields
    THEN [content EXCEPT !.kv = @ \cup {<<"written", "">>}]
    ELSE [content EXCEPT !.Test = <<"written">>]

Writable(f, content) == f \in SliceFields => content.elems # <<>>

DerivedWith ==
    {<<>>, <<withCmd(Slice(<<"echo">>))>>, <<withEnv(Slice(<<"B=2">>))>>,
     <<withArgsEscaped(TRUE)>>, <<withoutHealthcheck>>,
     <<withCmdComment("ENV A=1", "linux")>>,
     <<withCmdCommentString("COPY file:aaa in /dst ", "windows")>>,
     <<withEntrypointOverride(Slice(<<"sh", "-x">>), Slice(<<"sh", "-x">>))>>,
     <<withEntrypointOverride(NilSlice, Slice(<<"sh", "-x">>)), withCmd(NilSlice)>>}

\* a base configuration is built
NewConfig ==
    /\ mem = NoMem
    /\ \E runConfig \in Configs :
          mem' = [heap |-> OwnHeap(runConfig, 0, 0, RefFields),
                  cfgs |-> <<[f \in RefFields \cup ScalarFields |->
                                IF f \in ScalarFields THEN runConfig[f]
                                ELSE OwnRefs(runConfig, 0, 0, RefFields)[f]]>>,
                  read |-> <<runConfig>>,
                  derivedWith |-> <<>>,
                  written |-> 0,
                  field |-> ""]
    /\ UNCHANGED <<state, base, builder, env, last, phase, script, ids, pos, run, fn>>

\* a configuration is derived from the base, twice at most
Derive ==
    /\ mem # NoMem
    /\ mem.written = 0
    /\ Len(mem.cfgs) \in {1, 2}
    /\ \E modifiers \in DerivedWith :
          LET d == copyRunConfigMem(mem.heap, mem.cfgs[1], Len(mem.cfgs), modifiers)
          IN  mem' = [mem EXCEPT !.heap = d.heap,
                                 !.cfgs = Append(@, d.cfg),
                                 !.read = Append(@, Value(d.heap, d.cfg)),
                                 !.derivedWith = Append(@, modifiers)]
    /\ UNCHANGED <<state, base, builder, env, last, phase, script, ids, pos, run, fn>>

\* the holder of a derivation writes through one of its references
Write ==
    /\ mem # NoMem
    /\ mem.written = 0
    /\ \E i \in 2..Len(mem.cfgs), f \in RefFields :
          /\ mem.cfgs[i][f] # NilRef
          /\ Writable(f, mem.heap[mem.cfgs[i][f]])
          /\ mem' = [mem EXCEPT !.heap[mem.cfgs[i][f]] = Written(f, @),
                                 !.written = i,
                                 !.field = f]
    /\ UNCHANGED <<state, base, builder, env, last, phase, script, ids, pos, run, fn>>

NextMem == NewConfig \/ Derive \/ Write

SpecMem == Init /\ [][NextMem]_vars

(***************************************************************************)
(* The Windows runtime-spec synthesis (package daemon).  A Go string is a  *)
(* sequence of atoms, each standing for a run of characters; no atom of a  *)
(* path below is a prefix of another one, so that a prefix of characters   *)
(* is a prefix of atoms.  An error is its class and its message.           *)
(***************************************************************************)
NoError == [class |-> "none", msg |-> ""]

InvalidParameter(err) == [class |-> "InvalidParameter", msg |-> err.msg]

System(err) == [class |-> "System", msg |-> err.msg]

Errorf(msg) == [class |-> "plain", msg |-> msg]

HasPrefix(s, prefix) ==
    Len(prefix) <= Len(s) /\ SubSeq(s, 1, Len(prefix)) = prefix

\* strings.Cut(s, sep) for a separator of one atom: around its first occurrence
Cut(s, sep) ==
    LET at == {i \in 1..Len(s) : s[i] = sep}
    IN  IF at = {}
        THEN [before |-> s, after |-> <<>>, found |-> FALSE]
        ELSE LET i == CHOOSE j \in at : \A k \in at : j <= k
             IN  [before |-> SubSeq(s, 1, i - 1), after |-> SubSeq(s, i + 1, Len(s)),
                  found |-> TRUE]

\* strings.ToLower of an atom
ToLowerAtom(a) ==
    CASE a = "CredentialSpec" -> "credentialspec"
      [] a = "FILE" -> "file"
      [] a = "Raw" -> "raw"
      [] OTHER -> a

ToLower(s) == [i \in 1..Len(s) |-> ToLowerAtom(s[i])]

EqualFold(s, t) == ToLower(s) = ToLower(t)

Separator == "\\"

IsSep(a) == a \in {"\\", "/"}

VolumeNames == {"C:", "D:"}

\* the path elements of s: what stands between its separators
RECURSIVE Split(_)
Split(s) ==
    IF s = <<>> THEN << <<>> >>
    ELSE LET r == Split(Tail(s))
         IN  IF IsSep(Head(s)) THEN << <<>> >> \o r
             ELSE << <<Head(s)>> \o r[1] >> \o Tail(r)

\* filepath.Clean on the elements: empty and . elements go, .. takes the
\* element before it away, or goes itself at the root
RECURSIVE Resolve(_, _, _)
Resolve(elements, kept, rooted) ==
    IF elements = <<>> THEN kept
    ELSE LET el == Head(elements)
         IN  IF el = <<>> \/ el = <<".">>
             THEN Resolve(Tail(elements), kept, rooted)
             ELSE IF el = <<"..">>
             THEN IF kept # <<>> /\ kept[Len(kept)] # <<"..">>
                  THEN Resolve(Tail(elements), SubSeq(kept, 1, Len(kept) - 1), rooted)
                  ELSE IF rooted
                  THEN Resolve(Tail(elements), kept, rooted)
                  ELSE Resolve(Tail(elements), Append(kept, el), rooted)
             ELSE Resolve(Tail(elements), Append(kept, el), rooted)

RECURSIVE Unsplit(_)
Unsplit(elements) ==
    IF elements = <<>> THEN <<>>
    ELSE IF Len(elements) = 1 THEN elements[1]
    ELSE elements[1] \o <<Separator>> \o Unsplit(Tail(elements))

\* the volume name a path starts with, if any
VolumeName(path) == IF path # <<>> /\ path[1] \in VolumeNames THEN <<path[1]>> ELSE <<>>

\* filepath.Clean (Windows)
Clean(path) ==
    LET vol == VolumeName(path)
        rest == SubSeq(path, Len(vol) + 1, Len(path))
        rooted == rest # <<>> /\ IsSep(rest[1])
        body == (IF rooted THEN <<Separator>> ELSE <<>>)
                \o Unsplit(Resolve(Split(rest), <<>>, rooted))
    IN  IF body = <<>> THEN vol \o <<".">> ELSE vol \o body

\* filepath.IsAbs (Windows): a volume name, then a separator
IsAbs(path) ==
    LET vol == VolumeName(path)
    IN  vol # <<>> /\ Len(path) > 1 /\ IsSep(path[2])

\* filepath.Join of two non-empty elements
JoinPath(a, b) == Clean(a \o <<Separator>> \o b)

credentialSpecFileLocation == <<"CredentialSpecs">>

\* daemon.root
Root == <<"C:", "\\", "root">>

\* the files of the host and what they hold
Files ==
    {[path |-> <<"C:", "\\", "root", "\\", "CredentialSpecs", "\\", "x.json">>,
      data |-> <<"spec-x">>],
     [path |-> <<"C:", "\\", "root", "\\", "CredentialSpecs", "\\", "sub", "\\", "e.json">>,
      data |-> <<>>],
     [path |-> <<"C:", "\\", "root", "\\", "CredentialSpecs", "2", "\\", "x.json">>,
      data |-> <<"spec-of-another-directory">>],
     [path |-> <<"C:", "\\", "root", "\\", "key.pem">>, data |-> <<"host-secret">>]}

\* os.ReadFile
ReadFile(path) ==
    LET found == {file \in Files : file.path = path}
    IN  IF found = {}
        THEN [data |-> <<>>, err |-> Errorf("open: cannot find the file")]
        ELSE [data |-> (CHOOSE file \in found : TRUE).data, err |-> NoError]

\* readCredentialSpecFile: the content, the error, and the files it read
readCredentialSpecFile(id, root, location) ==
    IF IsAbs(location)
    THEN [value |-> <<>>, read |-> <<>>,
          err |-> Errorf("invalid credential spec: file:// path cannot be absolute")]
    ELSE LET baseDir == JoinPath(root, credentialSpecFileLocation)
             full == JoinPath(baseDir, location)
         IN  IF ~HasPrefix(full, baseDir)
             THEN [value |-> <<>>, read |-> <<>>,
                   err |-> Errorf("invalid credential spec: file:// path must be under base")]
             ELSE LET read == ReadFile(full)
                  IN  IF read.err # NoError
                      THEN [value |-> <<>>, read |-> <<full>>,
                            err |-> Errorf("failed to load credential spec for container")]
                      ELSE [value |-> read.data, err |-> NoError, read |-> <<full>>]

\* the locations of file:// options, as written
Locations ==
    {<<"x.json">>, <<"sub", "/", "e.json">>, <<"missing.json">>,
     <<"sub", "\\", "..", "\\", "x.json">>,
     <<"..", "\\", "key.pem">>,
     <<"..", "/", "CredentialSpecs", "2", "/", "x.json">>,
     <<"..", "\\", "CredentialSpecs", "\\", "x.json">>,
     <<"C:", "\\", "root", "\\", "key.pem">>,
     <<"C:", "\\", "root", "\\", "CredentialSpecs", "\\", "x.json">>,
     <<"\\", "x.json">>}

ContainerID == "c1"

\* the values of the registry key of credential specs
Registry == {[name |-> <<"reg1">>, value |-> <<"spec-reg">>]}

\* readCredentialSpecRegistry
readCredentialSpecRegistry(id, name, registryFails) ==
    IF registryFails
    THEN [value |-> <<>>,
          err |-> Errorf("failed handling spec - registry key could not be opened")]
    ELSE LET found == {r \in Registry : r.name = name}
         IN  IF found = {}
             THEN [value |-> <<>>, err |-> Errorf("registry credential spec was not found")]
             ELSE [value |-> (CHOOSE r \in found : TRUE).value, err |-> NoError]

\* c.DependencyStore.Configs().Get(value)
GetConfig(store, name) ==
    LET found == {cfg \in store.configs : cfg.name = name}
    IN  IF found = {}
        THEN [data |-> <<>>, err |-> Errorf("config not found")]
        ELSE [data |-> (CHOOSE cfg \in found : TRUE).data, err |-> NoError]

errInvalidCredentialSpecSecOpt ==
    InvalidParameter(Errorf("invalid credential spec security option - value must be prefixed by file://, registry://, or raw:// followed by a non-empty value"))

\* one turn of setWindowsCredentialSpec's loop: the error of the option, or
\* the credential spec it stands for
credentialSpecOption(c, root, secOpt, registryFails) ==
    LET kv == Cut(secOpt, "=")
        sv == Cut(kv.after, "://")
        scheme == ToLower(sv.before)
    IN  IF ~kv.found
        THEN [value |-> <<>>, err |-> InvalidParameter(Errorf(
                "invalid security option: no equals sign in supplied value"))]
        ELSE IF ~EqualFold(kv.before, <<"credentialspec">>)
        THEN [value |-> <<>>, err |-> InvalidParameter(Errorf(
                "security option not supported"))]
        ELSE IF ~sv.found \/ sv.after = <<>>
        THEN [value |-> <<>>, err |-> errInvalidCredentialSpecSecOpt]
        ELSE IF scheme = <<"file">>
        THEN LET r == readCredentialSpecFile(c.ID, root, Clean(sv.after))
             IN  IF r.err # NoError
                 THEN [value |-> <<>>, err |-> InvalidParameter(r.err)]
                 ELSE [value |-> r.value, err |-> NoError]
        ELSE IF scheme = <<"registry">>
        THEN LET r == readCredentialSpecRegistry(c.ID, sv.after, registryFails)
             IN  IF r.err # NoError
                 THEN [value |-> <<>>, err |-> InvalidParameter(r.err)]
                 ELSE [value |-> r.value, err |-> NoError]
        ELSE IF scheme = <<"config">>
        THEN IF c.DependencyStore.isNil
             THEN [value |-> <<>>, err |-> errInvalidCredentialSpecSecOpt]
             ELSE LET csConfig == GetConfig(c.DependencyStore, sv.after)
                  IN  IF csConfig.err # NoError
                      THEN [value |-> <<>>, err |-> System(Errorf(
                              "error getting value from config store"))]
                      ELSE [value |-> csConfig.data, err |-> NoError]
        ELSE IF scheme = <<"raw">>
        THEN [value |-> sv.after, err |-> NoError]
        ELSE [value |-> <<>>, err |-> errInvalidCredentialSpecSecOpt]

\* faulty variant: an option that stands for the empty string leaves the
\* value of the options before it in place
RECURSIVE credentialSpecOf_keepsNonEmpty(_, _, _, _, _)
credentialSpecOf_keepsNonEmpty(c, root, secOpts, credentialSpec, registryFails) ==
    IF secOpts = <<>> THEN [value |-> credentialSpec, err |-> NoError]
    ELSE LET o == credentialSpecOption(c, root, Head(secOpts), registryFails)
         IN  IF o.err # NoError THEN [value |-> <<>>, err |-> o.err]
             ELSE credentialSpecOf_keepsNonEmpty(c, root, Tail(secOpts),
                     IF o.value = <<>> THEN credentialSpec ELSE o.value, registryFails)

\* setWindowsCredentialSpec's loop over c.HostConfig.SecurityOpt
RECURSIVE credentialSpecOf(_, _, _, _, _)
credentialSpecOf(c, root, secOpts, credentialSpec, registryFails) ==
    IF secOpts = <<>> THEN [value |-> credentialSpec, err |-> NoError]
    ELSE LET o == credentialSpecOption(c, root, Head(secOpts), registryFails)
         IN  IF o.err # NoError THEN [value |-> <<>>, err |-> o.err]
             ELSE credentialSpecOf(c, root, Tail(secOpts), o.value, registryFails)

\* setWindowsCredentialSpec(c, s): the error and the spec after it
setWindowsCredentialSpec(c, root, s, registryFails) ==
    IF c.HostConfig.isNil \/ c.HostConfig.SecurityOpt.isNil
    THEN [err |-> NoError, s |-> s]
    ELSE LET r == credentialSpecOf(c, root, c.HostConfig.SecurityOpt.elems, <<>>,
                                   registryFails)
         IN  IF r.err # NoError THEN [err |-> r.err, s |-> s]
             ELSE IF r.value # <<>>
             THEN [err |-> NoError,
                   s |-> [s EXCEPT !.Windows = [isNil |-> FALSE,
                                                CredentialSpec |-> r.value]]]
             ELSE [err |-> NoError, s |-> s]

\* setupWindowsDevices(devices): the devices of the spec, or the error
RECURSIVE setupWindowsDevices(_)
setupWindowsDevices(devices) ==
    IF devices = <<>> THEN [specDevices |-> <<>>, err |-> NoError]
    ELSE LET pathOnHost == Head(devices).PathOnHost
             cut == Cut(pathOnHost, "://")
             rest == setupWindowsDevices(Tail(devices))
             added(dev) == IF rest.err # NoError THEN rest
                           ELSE [specDevices |-> <<dev>> \o rest.specDevices,
                                 err |-> NoError]
         IN  IF HasPrefix(pathOnHost, <<"class/">>)
             THEN added([ID |-> Tail(pathOnHost), IDType |-> <<"class">>])
             ELSE IF ~cut.found
             THEN [specDevices |-> <<>>, err |-> Errorf(
                     "invalid device assignment path, must be class/ID or IDType://ID")]
             ELSE IF cut.before = <<>>
             THEN [specDevices |-> <<>>, err |-> Errorf(
                     "invalid device assignment path, IDType cannot be empty")]
             ELSE added([ID |-> cut.after, IDType |-> cut.before])

MaxOpts == 2

MaxDevices == 2

Opt(key, scheme, value) == <<key, "=">> \o scheme \o value

SecOpts ==
    {Opt("credentialspec", <<"raw", "://">>, <<"spec-raw">>),
     Opt("CredentialSpec", <<"Raw", "://">>, <<"a", "=", "b", "://", "c">>),
     Opt("credentialspec", <<"file", "://">>, <<"x.json">>),
     Opt("credentialspec", <<"FILE", "://">>, <<"sub", "/", "e.json">>),
     Opt("credentialspec", <<"file", "://">>, <<"missing.json">>),
     Opt("credentialspec", <<"file", "://">>, <<"..", "/", "key.pem">>),
     Opt("credentialspec", <<"registry", "://">>, <<"reg1">>),
     Opt("credentialspec", <<"registry", "://">>, <<"reg2">>),
     Opt("credentialspec", <<"config", "://">>, <<"cfg1">>),
     Opt("credentialspec", <<"config", "://">>, <<"cfg2">>),
     Opt("credentialspec", <<"raw", "://">>, <<>>),
     Opt("credentialspec", <<>>, <<"spec-raw">>),
     Opt("credentialspec", <<"http", "://">>, <<"spec-raw">>),
     Opt("seccomp", <<"raw", "://">>, <<"spec-raw">>),
     <<"no-new-privileges">>}

NoStore == [isNil |-> TRUE, configs |-> {}]

Stores == {NoStore, [isNil |-> FALSE, configs |-> {[name |-> <<"cfg1">>, data |-> <<"spec-cfg">>]}]}

NoHostConfig == [isNil |-> TRUE, SecurityOpt |-> NilSlice, Devices |-> <<>>]

\* the containers whose spec is built
Containers ==
    {[ID |-> ContainerID, HostConfig |-> NoHostConfig, DependencyStore |-> NoStore]}
    \cup {[ID |-> ContainerID,
            HostConfig |-> [isNil |-> FALSE, SecurityOpt |-> secOpts, Devices |-> <<>>],
            DependencyStore |-> store] :
              secOpts \in {NilSlice} \cup {Slice(o) : o \in UNION {[1..n -> SecOpts] : n \in 0..MaxOpts}},
              store \in Stores}

\* the spec before the credential spec is set
SpecsBefore ==
    {[Windows |-> [isNil |-> TRUE, CredentialSpec |-> <<>>]],
     [Windows |-> [isNil |-> FALSE, CredentialSpec |-> <<>>]]}

DevicePaths ==
    {<<"class/", "5B45201D">>, <<"vpci", "://", "id1">>, <<"vpci", "://">>,
     <<"://", "id1">>, <<"gpu0">>}

\* createSpecWindowsFields sets the credential spec of the container
SetWindowsCredentialSpec ==
    /\ fn = NoCall
    /\ \E c \in Containers, s \in SpecsBefore, registryFails \in BOOLEAN :
          LET r == setWindowsCredentialSpec(c, Root, s, registryFails)
          IN  fn' = [op |-> "setWindowsCredentialSpec", c |-> c, before |-> s,
                     registryFails |-> registryFails, err |-> r.err, after |-> r.s]
    /\ UNCHANGED <<state, base, builder, env, last, phase, script, ids, pos, run, mem>>

\* createSpecWindowsFields sets up the devices of the container
SetupWindowsDevices ==
    /\ fn = NoCall
    /\ \E devices \in UNION {[1..n -> {[PathOnHost |-> d] : d \in DevicePaths}] :
                                n \in 0..MaxDevices} :
          LET r == setupWindowsDevices(devices)
          IN  fn' = [op |-> "setupWindowsDevices", devices |-> devices,
                     err |-> r.err, specDevices |-> r.specDevices]
    /\ UNCHANGED <<state, base, builder, env, last, phase, script, ids, pos, run, mem>>

\* readCredentialSpecFile, called as setWindowsCredentialSpec calls it
ReadCredentialSpecFile ==
    /\ fn = NoCall
    /\ \E value \in Locations :
          LET location == Clean(value)
              r == readCredentialSpecFile(ContainerID, Root, location)
          IN  fn' = [op |-> "readCredentialSpecFile", location |-> location,
                     value |-> r.value, err |-> r.err, read |-> r.read]
    /\ UNCHANGED <<state, base, builder, env, last, phase, script, ids, pos, run, mem>>

(***************************************************************************)
(* setupContainerDirs.  The calls it makes are recorded in order; the one  *)
(* that fails, if any, is the input f.                                     *)
(***************************************************************************)
\* Isolation.IsDefault and Isolation.IsHyperV
IsDefault(isolation) == isolation \in {"", "default"}

IsHyperV(isolation) == isolation = "hyperv"

isHyperV(daemon, c) ==
    IF IsDefault(c.HostConfig.Isolation)
    THEN IsHyperV(daemon.defaultIsolation)
    ELSE IsHyperV(c.HostConfig.Isolation)

\* faulty variant: the file system is unmounted when all went well only
Unmount_onSuccessOnly(r) ==
    IF r.err # NoError THEN r
    ELSE [r EXCEPT !.events = @ \o <<Ev("Unmount", "")>>]

\* daemon.Unmount(c), deferred: runs when setupContainerDirs returns
Unmount(r) == [r EXCEPT !.events = @ \o <<Ev("Unmount", "")>>]

\* setupContainerDirs from the symlinks on
symlinksAndMounts(c, f, withLinks) ==
    LET links == IF withLinks THEN <<Ev("CreateSecretSymlinks", "")>> ELSE <<>>
        both == IF withLinks
                THEN <<Ev("CreateSecretSymlinks", ""), Ev("CreateConfigSymlinks", "")>>
                ELSE <<>>
    IN  IF withLinks /\ f = "secretsymlinks"
        THEN [err |-> Errorf("secret symlinks"), mounts |-> <<>>, events |-> links]
        ELSE IF withLinks /\ f = "configsymlinks"
        THEN [err |-> Errorf("config symlinks"), mounts |-> <<>>, events |-> both]
        ELSE IF f = "secretmounts"
        THEN [err |-> Errorf("secret mounts"), mounts |-> <<>>,
              events |-> both \o <<Ev("SecretMounts", "")>>]
        ELSE [err |-> NoError,
              mounts |-> [i \in 1..c.SecretReferences |-> "secret"]
                         \o [i \in 1..c.ConfigReferences |-> "config"],
              events |-> both \o <<Ev("SecretMounts", ""), Ev("ConfigMounts", "")>>]

setupContainerDirs(daemon, c, f) ==
    LET dirs == <<Ev("setupSecretDir", ""), Ev("setupConfigDir", "")>>
    IN  IF f = "secretdir"
        THEN [err |-> Errorf("secret dir"), mounts |-> <<>>,
              events |-> <<Ev("setupSecretDir", "")>>]
        ELSE IF f = "configdir"
        THEN [err |-> Errorf("config dir"), mounts |-> <<>>, events |-> dirs]
        ELSE IF ~c.HasBeenStartedBefore /\ (c.SecretReferences > 0 \/ c.ConfigReferences > 0)
        THEN IF isHyperV(daemon, c)
             THEN IF f = "mount"
                  THEN [err |-> Errorf("mount"), mounts |-> <<>>,
                        events |-> dirs \o <<Ev("Mount", "failed")>>]
                  ELSE LET r == symlinksAndMounts(c, f, TRUE)
                       IN  Unmount([r EXCEPT !.events = dirs \o <<Ev("Mount", "ok")>> \o @])
             ELSE LET r == symlinksAndMounts(c, f, TRUE)
                  IN  [r EXCEPT !.events = dirs \o @]
        ELSE LET r == symlinksAndMounts(c, f, FALSE)
             IN  [r EXCEPT !.events = dirs \o @]

DirFaults ==
    {"none", "secretdir", "configdir", "mount", "secretsymlinks", "configsymlinks",
     "secretmounts"}

Isolations == {"", "process", "hyperv"}

Daemons == {[defaultIsolation |-> i] : i \in {"process", "hyperv"}}

StartedContainers ==
    {[ID |-> ContainerID, HasBeenStartedBefore |-> started,
      SecretReferences |-> secrets, ConfigReferences |-> configs,
      HostConfig |-> [Isolation |-> isolation]] :
        started \in BOOLEAN, secrets \in {0, 1}, configs \in {0, 1},
        isolation \in Isolations}

SetupContainerDirs ==
    /\ fn = NoCall
    /\ \E daemon \in Daemons, c \in StartedContainers, f \in DirFaults :
          LET r == setupContainerDirs(daemon, c, f)
          IN  fn' = [op |-> "setupContainerDirs", daemon |-> daemon, c |-> c,
                     err |-> r.err, mounts |-> r.mounts, events |-> r.events]
    /\ UNCHANGED <<state, base, builder, env, last, phase, script, ids, pos, run, mem>>

NextOCI ==
    \/ SetWindowsCredentialSpec
    \/ SetupWindowsDevices
    \/ ReadCredentialSpecFile
    \/ SetupContainerDirs

\* the daemon builds the spec of a container whatever build made its image:
\* one build stands for all
InitOCI ==
    /\ Init
    /\ builder = [disableCommit |-> FALSE, platform |-> [isNil |-> TRUE, val |-> DefaultSpec],
                  options |-> [Platform |-> ""]]
    /\ base = [imageID |-> BaseImageID, hasFrom |-> TRUE, runConfig |-> ConfigB,
               maintainer |-> "dev", operatingSystem |-> "windows"]

SpecOCI == InitOCI /\ [][NextOCI]_vars

(***************************************************************************)
(* hashStringSlice over strings that may hold the separator: a string is   *)
(* its characters, the digest is kept symbolic by what it is taken over.   *)
(***************************************************************************)
Parts == {<<"a">>, <<"a", ",", "b">>, <<"c">>, <<"b", ",", "c">>}

RECURSIVE JoinChars(_, _)
JoinChars(slice, sep) ==
    IF slice = <<>> THEN <<>>
    ELSE IF Len(slice) = 1 THEN slice[1]
    ELSE slice[1] \o <<sep>> \o JoinChars(Tail(slice), sep)

\* what hashStringSlice writes to the hasher
Digested(slice) == JoinChars(slice, ",")

HashStringSlice ==
    /\ fn = NoCall \/ (fn.op = "hashStringSlice" /\ fn.before = <<>>)
    /\ \E slice \in UNION {[1..n -> Parts] : n \in 2..MaxSources} :
          fn' = [op |-> "hashStringSlice", slice |-> slice,
                 digested |-> Digested(slice),
                 before |-> IF fn.op = "hashStringSlice"
                            THEN <<[slice |-> fn.slice, digested |-> fn.digested]>>
                            ELSE <<>>]
    /\ UNCHANGED <<state, base, builder, env, last, phase, script, ids, pos, run, mem>>

SpecDigest == Init /\ [][HashStringSlice]_vars

(***************************************************************************)
(* LogImageEvent (package containerd).  A map is nil or a set of           *)
(* <<key, value>> pairs with one pair per key.                             *)
(***************************************************************************)
\* m[k] = v
MapSet(m, k, v) == {kv \in m : kv[1] # k} \cup {<<k, v>>}

RECURSIVE SetAll(_, _)
SetAll(m, entries) ==
    IF entries = {} THEN m
    ELSE LET kv == CHOOSE x \in entries : TRUE
         IN  SetAll(MapSet(m, kv[1], kv[2]), entries \ {kv})

\* copyAttributes(attributes, labels): both maps after the call
copyAttributes(attributes, labels) ==
    IF labels.isNil THEN [attributes |-> attributes, labels |-> labels]
    ELSE [attributes |-> SetAll(attributes, labels.kv), labels |-> labels]

\* faulty variant: the labels map itself is used as the attributes, so that
\* the name is written into it
LogImageEvent_noCopy(img, imageID, refName, action) ==
    LET shared == img.err = NoError /\ ~img.Config.isNil /\ ~img.Config.Labels.isNil
        attributes == IF shared THEN img.Config.Labels.kv ELSE {}
        named == IF refName # "" THEN MapSet(attributes, "name", refName) ELSE attributes
    IN  [logged |-> <<[action |-> action, type |-> "image",
                       actor |-> [ID |-> imageID, Attributes |-> named]]>>,
         img |-> IF shared THEN [img EXCEPT !.Config.Labels.kv = named] ELSE img]

\* LogImageEvent: what the events service is given, and the image after it
LogImageEvent(img, imageID, refName, action) ==
    LET attributes == {}
        copied == IF img.err = NoError /\ ~img.Config.isNil
                  THEN copyAttributes(attributes, img.Config.Labels)
                  ELSE [attributes |-> attributes, labels |-> img.Config.Labels]
        named == IF refName # "" THEN MapSet(copied.attributes, "name", refName)
                 ELSE copied.attributes
    IN  [logged |-> <<[action |-> action, type |-> "image",
                       actor |-> [ID |-> imageID, Attributes |-> named]]>>,
         img |-> [img EXCEPT !.Config.Labels = copied.labels]]

NoConfig == [isNil |-> TRUE, Labels |-> EmptyMap]

\* what i.GetImage returns
StoredImages ==
    {[err |-> Errorf("image not found"), Config |-> NoConfig],
     [err |-> NoError, Config |-> NoConfig]}
    \cup {[err |-> NoError, Config |-> [isNil |-> FALSE, Labels |-> labels]] :
             labels \in {EmptyMap, [isNil |-> FALSE, kv |-> {}],
                         [isNil |-> FALSE, kv |-> {<<"maintainer", "dev">>}],
                         [isNil |-> FALSE,
                          kv |-> {<<"name", "from-label">>, <<"k", "v">>}]}}

RefNames == {"", "repo:tag"}

Actions == {"pull", "tag", "delete"}

LogEvent ==
    /\ fn = NoCall
    /\ \E img \in StoredImages, refName \in RefNames, action \in Actions :
          LET r == LogImageEvent(img, BaseImageID, refName, action)
          IN  fn' = [op |-> "LogImageEvent", img |-> img, imageID |-> BaseImageID,
                     refName |-> refName, action |-> action,
                     logged |-> r.logged, after |-> r.img]
    /\ UNCHANGED <<state, base, builder, env, last, phase, script, ids, pos, run, mem>>

SpecEvents == Init /\ [][LogEvent]_vars

(***************************************************************************)
(* Properties.                                                             *)
(***************************************************************************)
\* the image the cache held, before the last step, for what that step probed with
LastCached ==
    CachedID(last.preCache, last.pre.imageID, last.candidate, getPlatform(builder, last.pre))

\* the last step probed the cache and the probe returned a cached image
LastHit ==
    /\ last.op \in {"commit", "copy"}
    /\ Calls(last.events, "Probe") > 0
    /\ ~last.probeErr
    /\ LastCached # NoID

LayerTracked(l) == \E i \in 1..Len(env.mounts) : env.mounts[i].layer = l

\* C1: every layer that layer.Commit() has produced is registered with the
\* mount tracker, whatever exit path exportImage took afterwards.
C1_CommittedLayerTracked == \A l \in env.committed : LayerTracked(l)

\* C2: a performCopy (and the exportImage in it) that returns an error leaves
\* imageID as it was before the call; imageID changes only on a cache hit or
\* after CreateImage has succeeded.
C2_FailedCopyKeepsImageID ==
    last.op = "copy" =>
        /\ last.err # NoErr => state.imageID = last.pre.imageID
        /\ state.imageID # last.pre.imageID =>
              \/ LastHit /\ state.imageID = LastCached
              \/ \E i \in 1..Len(last.events) :
                    last.events[i] = Ev("CreateImage", state.imageID)

C2_Witness ==
    /\ last.op = "copy"
    /\ last.err # NoErr
    /\ Calls(last.events, "CreateImage") = 1

\* C3: a commit that returns an error (probe, container creation or
\* CommitBuildStep failing) leaves imageID as it was before the call.
C3_FailedCommitKeepsImageID ==
    (last.op = "commit" /\ last.err # NoErr) => state.imageID = last.pre.imageID

\* C4: performCopy releases the writable layer once for every successful
\* NewRWLayer (none when it ends before or at NewRWLayer, one otherwise, on
\* success and on failure) and no layer is left unreleased when it returns.
C4_ReleasedExactlyOnce ==
    /\ env.live = {}
    /\ env.released = env.acquired
    /\ last.op = "copy" =>
        /\ Calls(last.events, "Release") = last.acquired
        /\ last.acquired = IF Calls(last.events, "createDestInfo") > 0 THEN 1 ELSE 0
        /\ last.acquired = 1 => last.events[Len(last.events)] = Ev("Release", "")

C4_Witness ==
    /\ last.op = "copy"
    /\ last.err # NoErr
    /\ last.acquired = 1
    /\ Calls(last.events, "Release") = 1

\* C5: performCopy probes the cache first, and when the probe returns a cached
\* image it returns success with imageID the cached identity, having called
\* nothing else: no image-mount lookup, NewRWLayer, chown resolution, copy,
\* layer commit, CreateImage or mount registration.
C5_HitShortCircuits ==
    (last.op = "copy" /\ last.events # <<>>) =>
        /\ last.events[1] = Ev("Probe", "")
        /\ LastHit =>
              /\ last.err = NoErr
              /\ state = [last.pre EXCEPT !.imageID = LastCached]
              /\ last.events = <<Ev("Probe", ""), Ev("Stdout", " ---> Using cache")>>
              /\ last.acquired = 0

C5_Witness == last.op = "copy" /\ LastHit

\* C6: replaying the steps of the first run from the same base gives, after
\* each replayed step, the image identity the first run had after that step,
\* with no container created and no CommitBuildStep or CreateImage call.
C6_ReplayReproduces ==
    (phase = "replay" /\ pos >= 1) =>
        /\ state.imageID = ids[pos]
        /\ run.created = 0
        /\ Calls(last.events, "Create") = 0
        /\ Calls(last.events, "CommitBuildStep") = 0
        /\ Calls(last.events, "CreateImage") = 0

C6_Witness ==
    /\ phase = "replay"
    /\ pos = 2
    /\ pos = Len(script)
    /\ script[1].op = "commit"
    /\ script[2].op = "copy"
    /\ ~builder.disableCommit
    /\ ids[2] # ids[1]

\* C7: when imageProber.Probe returns an error, the step returns that error,
\* having called nothing but the probe, and the dispatch state is unchanged,
\* also when the cache holds an image for the probed key.
C7_ProbeErrorIsHard ==
    last.probeErr =>
        /\ last.err = ProbeErr
        /\ last.events = <<Ev("Probe", "")>>
        /\ state = last.pre
        /\ last.acquired = 0

C7_Witness == last.probeErr /\ last.op = "commit" /\ LastCached # NoID

\* C8 (as stated): after a step resolved by a cache hit, the dispatch state's
\* runConfig equals the candidate configuration the step probed with.
C8_HitSetsRunConfig == LastHit => state.runConfig = last.candidate

\* C8 (amended): after a step resolved by a cache hit, the dispatch state's
\* runConfig is what it was before the step; the candidate differs from it at
\* most in Cmd, and the hit replaces imageID only.
C8_HitKeepsRunConfig ==
    LastHit =>
        /\ state.runConfig = last.pre.runConfig
        /\ state = [last.pre EXCEPT !.imageID = LastCached]
        /\ last.candidate = [last.pre.runConfig EXCEPT !.Cmd = last.candidate.Cmd]

C8_Witness == LastHit /\ last.op = "commit" /\ last.candidate # last.pre.runConfig

SingleSource(inst) == Len(inst.infos) = 1

\* another single-source instruction that differs from inst in its hash only
OtherHash(inst, inst2) ==
    /\ SingleSource(inst2)
    /\ inst2.infos[1].hash # inst.infos[1].hash
    /\ [inst2 EXCEPT !.infos = inst.infos] = inst

\* C9: a successful single-source copy step materializes exactly one file and
\* produces a new image when the cache has no entry for it, and materializes
\* nothing and yields the cached image when it has; the replay of a copy step
\* yields the first run's image with no materialization; a cache entry made by
\* a copy from the same parent with another hash has another candidate
\* configuration and never serves the step.
C9_CopyScenario ==
    /\ (last.op = "copy" /\ last.err = NoErr /\ SingleSource(last.inst)) =>
          /\ LastCached = NoID =>
                /\ Calls(last.events, "performCopyForInfo") = 1
                /\ state.imageID \notin
                      {c.image : c \in last.preCache} \cup {last.pre.imageID, NoID}
          /\ LastCached # NoID =>
                /\ Calls(last.events, "performCopyForInfo") = 0
                /\ state.imageID = LastCached
          /\ \A c \in last.preCache, inst2 \in Insts :
                (/\ OtherHash(last.inst, inst2)
                 /\ c.parent = last.pre.imageID
                 /\ c.config = copyCandidate(last.pre, inst2))
                => (c.config # last.candidate /\ state.imageID # c.image)
    /\ (phase = "replay" /\ pos >= 1 /\ last.op = "copy") =>
          /\ run.materialized = 0
          /\ state.imageID = ids[pos]

C9_Witness ==
    /\ last.op = "copy"
    /\ last.err = NoErr
    /\ last.inst = Inst("COPY", "", <<HashH2>>)
    /\ last.pre.imageID = BaseImageID
    /\ Calls(last.events, "performCopyForInfo") = 1
    /\ \E c \in last.preCache :
          /\ c.parent = BaseImageID
          /\ c.config = copyCandidate(last.pre, Inst("COPY", "", <<HashH>>))
          /\ state.imageID # c.image

\* C10 (as stated): every commit in a dispatch state without a from-image
\* returns an error, having probed nothing and created nothing, and leaves the
\* dispatch state unchanged.
C10_NoFromIsError ==
    (last.op = "commit" /\ ~hasFromImage(last.pre)) =>
        /\ last.err # NoErr
        /\ last.events = <<>>
        /\ state = last.pre

\* C10 (amended): every commit of a build that does not skip commits
\* (disableCommit unset), in a dispatch state without a from-image, returns an
\* error, having probed nothing and created nothing, and leaves the dispatch
\* state unchanged.
C10_NoFromIsErrorUnlessDisabled ==
    (last.op = "commit" /\ ~hasFromImage(last.pre) /\ ~builder.disableCommit) =>
        /\ last.err # NoErr
        /\ last.events = <<>>
        /\ state = last.pre

C10_Witness ==
    /\ last.op = "commit"
    /\ ~hasFromImage(last.pre)
    /\ ~builder.disableCommit
    /\ last.err # NoErr

\* the CommitBuildStep requests among events, in order
Requests(events) ==
    SelectSeq(events, LAMBDA ev : ev.call = "CommitBuildStep")

\* C11: with disableCommit set, commit and commitContainer return success,
\* leave every field of the dispatch state as it was, and call no collaborator:
\* no cache probe, no container creation, no CommitBuildStep; the cache and the
\* image store are as before.
C11_DryRunIsNoOp ==
    (builder.disableCommit /\ last.op \in {"commit", "commitContainer"}) =>
        /\ last.err = NoErr
        /\ state = last.pre
        /\ last.events = <<>>
        /\ env.cache = last.preCache
        /\ env.containers = 0

C11_Witness ==
    /\ builder.disableCommit
    /\ last.op = "commitContainer"
    /\ hasFromImage(last.pre)
    /\ last.err = NoErr
    /\ state = last.pre

\* C12 (as stated): a commitContainer that succeeds has requested an image
\* whose configuration is the candidate configuration it was given.
C12_ConfigIsCandidate ==
    (last.op = "commitContainer" /\ ~builder.disableCommit /\ last.err = NoErr) =>
        /\ Len(Requests(last.events)) = 1
        /\ Requests(last.events)[1].arg.Config = last.candidate

\* C12 (amended): commitContainer sends one CommitBuildStep request, for the
\* given container, whose author is the dispatch state's maintainer, whose
\* Config is a copy of the dispatch state's runConfig and whose ContainerConfig
\* is the candidate; on success imageID is the identity the commit returned,
\* and the other fields of the dispatch state are as before.
C12_CommitRequest ==
    (last.op = "commitContainer" /\ ~builder.disableCommit) =>
        /\ Len(Requests(last.events)) = 1
        /\ LET req == Requests(last.events)[1].arg
           IN  /\ req.ContainerID \in ContainerIDs
               /\ req.Author = last.pre.maintainer
               /\ req.Config = copyRunConfig(last.pre.runConfig, <<>>)
               /\ req.ContainerConfig = last.candidate
        /\ last.err = NoErr =>
              /\ state.imageID = env.images[Len(env.images)].id
              /\ state.imageID # last.pre.imageID
              /\ state = [last.pre EXCEPT !.imageID = state.imageID]

C12_Witness ==
    /\ last.op = "commitContainer"
    /\ ~builder.disableCommit
    /\ last.err = NoErr
    /\ last.candidate # last.pre.runConfig
    /\ state.imageID # last.pre.imageID

\* the mount-tracker entries the last step registered, in order
NewMounts == SubSeq(env.mounts, last.preMounts + 1, Len(env.mounts))

\* the stored record of the image the last step started from
ParentRecord ==
    env.images[CHOOSE i \in 1..Len(env.images) : env.images[i].id = last.pre.imageID]

\* C13: a performCopy whose exportImage succeeds has registered exactly two
\* mounts, in this order: the committed layer with no image, then, after
\* CreateImage returned the new identity and imageID was replaced by it, the
\* same layer with that image; both carry the OS, architecture and variant of
\* the parent image record.  When CreateImage fails, the provisional entry is
\* the only one and imageID is as before.
C13_TwoRegistrations ==
    (last.op = "copy" /\ Calls(last.events, "CreateImage") = 1) =>
        LET platform == [OS |-> ParentRecord.OS,
                         Architecture |-> ParentRecord.Architecture,
                         Variant |-> ParentRecord.Variant]
            tracked == SelectSeq(last.events,
                                 LAMBDA ev : ev.call \in {"Add", "CreateImage"})
        IN  IF last.err = NoErr
            THEN /\ Len(NewMounts) = 2
                 /\ NewMounts[1].image = NoID
                 /\ NewMounts[1].layer \in env.committed
                 /\ NewMounts[1].platform = platform
                 /\ state.imageID # last.pre.imageID
                 /\ NewMounts[2] = [image |-> state.imageID,
                                    layer |-> NewMounts[1].layer,
                                    platform |-> platform]
                 /\ tracked = <<Ev("Add", NoID), Ev("CreateImage", state.imageID),
                                Ev("Add", state.imageID)>>
            ELSE /\ Len(NewMounts) = 1
                 /\ NewMounts[1].image = NoID
                 /\ NewMounts[1].platform = platform
                 /\ state.imageID = last.pre.imageID
                 /\ tracked = <<Ev("Add", NoID), Ev("CreateImage", "")>>

C13_Witness ==
    /\ last.op = "copy"
    /\ last.err = NoErr
    /\ Calls(last.events, "CreateImage") = 1
    /\ Len(NewMounts) = 2
    /\ last.preMounts > 0
    /\ ParentRecord.OS = "windows"
    /\ ParentRecord.id # BaseImageID

\* C14 (as stated): a call of probeCache, hit or miss, leaves the cache, the
\* containers and the dispatch state as they were.
C14_ProbeIsReadOnly ==
    last.op = "probeCache" =>
        /\ env.cache = last.preCache
        /\ Calls(last.events, "Create") = 0
        /\ state = last.pre

\* C14 (amended): a call of probeCache leaves the cache and the containers as
\* they were and calls nothing but the prober (and, on a hit, writes one line to
\* Stdout); on a miss or a probe error the dispatch state is unchanged; on a
\* hit imageID becomes the cached identity and no other field changes.
C14_ProbeWritesImageIDOnHit ==
    last.op = "probeCache" =>
        /\ env.cache = last.preCache
        /\ \A i \in 1..Len(last.events) : last.events[i].call \in {"Probe", "Stdout"}
        /\ Calls(last.events, "Probe") = 1
        /\ IF LastCached # NoID /\ ~last.probeErr
           THEN /\ last.err = NoErr
                /\ state = [last.pre EXCEPT !.imageID = LastCached]
           ELSE state = last.pre

C14_Witness ==
    /\ last.op = "probeCache"
    /\ LastCached # NoID
    /\ ~last.probeErr
    /\ state.imageID = LastCached
    /\ state.imageID # last.pre.imageID
    /\ state.runConfig = last.pre.runConfig

\* the shell a no-op marker command starts with
ShellFor(runConfig, os) ==
    IF runConfig.Shell.elems # <<>> THEN runConfig.Shell.elems ELSE defaultShellForOS(os)

\* C16: a derivation whose last modifier is withCmdComment(comment, os) has
\* Cmd = shell ++ ["#(nop) ", comment], and one whose last modifier is
\* withCmdCommentString(comment, os) has Cmd = shell ++ ["#(nop) " + comment],
\* where shell is the configuration's Shell when it is non-empty and the
\* default shell of os otherwise; Shell is as in the base.  The candidate of
\* commit is of the first form and the candidate of performCopy of the second.
C16_TwoEncodings ==
    /\ (fn.op = "copyRunConfig" /\ fn.modifiers # <<>>) =>
          LET m == fn.modifiers[Len(fn.modifiers)]
          IN  /\ fn.result.Shell = fn.base.Shell
              /\ m.tag = "withCmdComment" =>
                    fn.result.Cmd = Slice(ShellFor(fn.base, m.platform)
                                          \o <<"#(nop) ", m.comment>>)
              /\ m.tag = "withCmdCommentString" =>
                    fn.result.Cmd = Slice(ShellFor(fn.base, m.platform)
                                          \o <<"#(nop) " \o m.comment>>)
    /\ \A c \in Comments :
          /\ commitCandidate(base, c).Cmd =
                Slice(ShellFor(base.runConfig, base.operatingSystem) \o <<"#(nop) ", c>>)
          /\ commitCandidate(base, c).Shell = base.runConfig.Shell
    /\ \A inst \in Insts :
          /\ copyCandidate(base, inst).Cmd =
                Slice(ShellFor(base.runConfig, base.operatingSystem)
                      \o <<"#(nop) " \o copyComment(inst)>>)
          /\ copyCandidate(base, inst).Shell = base.runConfig.Shell

C16_Witness ==
    /\ fn.op = "copyRunConfig"
    /\ fn.base = ConfigC
    /\ fn.modifiers = <<withCmd(Slice(<<"echo">>)), withCmdComment("ENV A=1", "windows")>>
    /\ fn.result.Cmd = Slice(<<"cmd", "/S", "/C", "#(nop) ", "ENV A=1">>)
    /\ fn.result.Shell = Slice(<<>>)
    /\ base.runConfig = ConfigB

\* C17: getSourceHashFromInfos of exactly one source item is that item's hash.
C17_SingleSourceVerbatim ==
    (fn.op = "getSourceHashFromInfos" /\ Len(fn.infos) = 1) =>
        fn.result = fn.infos[1].hash

C17_Witness ==
    /\ fn.op = "getSourceHashFromInfos"
    /\ Len(fn.infos) = 1
    /\ fn.result = HashD

Reverse(s) == [i \in 1..Len(s) |-> s[Len(s) + 1 - i]]

\* C18: of two calls of getSourceHashFromInfos, with the same list of sources
\* both return the same hash, and with two or more distinct hashes in one
\* order and in the reverse order they return different hashes.
C18_OrderSensitiveAndStable ==
    (fn.op = "getSourceHashFromInfos" /\ fn.before # <<>>) =>
        LET earlier == fn.before[1]
        IN  /\ earlier.infos = fn.infos => earlier.result = fn.result
            /\ (/\ Len(fn.infos) >= 2
                /\ earlier.infos = Reverse(fn.infos)
                /\ earlier.infos # fn.infos) => earlier.result # fn.result

C18_Witness ==
    /\ fn.op = "getSourceHashFromInfos"
    /\ fn.before # <<>>
    /\ fn.infos = <<[hash |-> HashH2], [hash |-> HashH]>>
    /\ fn.before[1].infos = <<[hash |-> HashH], [hash |-> HashH2]>>
    /\ fn.before[1].result # fn.result

\* C19: of two calls of getSourceHashFromInfos, one with exactly one source
\* item and one with none or with two or more, the hashes differ.
C19_SingleApartFromMulti ==
    (/\ fn.op = "getSourceHashFromInfos"
     /\ fn.before # <<>>
     /\ Len(fn.infos) = 1
     /\ Len(fn.before[1].infos) # 1) => fn.before[1].result # fn.result

C19_Witness ==
    /\ fn.op = "getSourceHashFromInfos"
    /\ fn.before # <<>>
    /\ fn.infos = <<[hash |-> HashH]>>
    /\ fn.before[1].infos = <<[hash |-> HashH], [hash |-> HashH2]>>
    /\ fn.before[1].result # HashH

\* C20: copyRunConfig(base, withEntrypointOverride(cmd, entrypoint)) equals
\* base in every field but Entrypoint, which is base's when cmd is nil or of
\* length zero and is entrypoint, nil or empty included, otherwise.
C20_EntrypointOverride ==
    (/\ fn.op = "copyRunConfig"
     /\ Len(fn.modifiers) = 1
     /\ fn.modifiers[1].tag = "withEntrypointOverride") =>
        LET m == fn.modifiers[1]
        IN  fn.result = [fn.base EXCEPT
                            !.Entrypoint = IF m.cmd.elems # <<>> THEN m.entrypoint
                                           ELSE fn.base.Entrypoint]

C20_Witness ==
    /\ fn.op = "copyRunConfig"
    /\ fn.modifiers = <<withEntrypointOverride(Slice(<<"sh", "-x">>), NilSlice)>>
    /\ fn.base.Entrypoint = Slice(<<"/entry">>)
    /\ fn.result.Entrypoint = NilSlice
    /\ fn.result.Cmd = fn.base.Cmd

\* C15: after any derivations from a base, the base reads as it did when it
\* was built, and once the holder of one derivation has written through one of
\* its references (Cmd, Env, Entrypoint, OnBuild, Shell, Volumes, ExposedPorts,
\* Labels, Healthcheck), the base and the other derivation still read as
\* before the write.
C15_NoSharedStorage ==
    mem # NoMem =>
        \A j \in 1..Len(mem.cfgs) :
            j # mem.written => Value(mem.heap, mem.cfgs[j]) = mem.read[j]

\* the same for the slices and maps alone: a write through any reference but
\* Healthcheck is seen by the derivation written through only
SlicesAndMapsNotShared ==
    (mem # NoMem /\ mem.field # "Healthcheck") =>
        \A j \in 1..Len(mem.cfgs) :
            j # mem.written => Value(mem.heap, mem.cfgs[j]) = mem.read[j]

\* a derivation reads as the value copyRunConfig computes
DerivationValue ==
    (mem # NoMem /\ mem.written = 0) =>
        \A j \in 2..Len(mem.cfgs) :
            mem.read[j] = copyRunConfig(mem.read[1], mem.derivedWith[j - 1])

\* the last step was a performCopy that missed the cache and got as far as
\* resolving the ownership of the copy
ResolvedOwnership ==
    /\ last.op = "copy"
    /\ Calls(last.events, "createDestInfo") = 1
    /\ last.err # "invalid " \o last.inst.cmdName

ChownErrors ==
    {"unable to convert uid/gid chown string to host mapping",
     "unable to map container user account name to SID"}

\* the sources the last step copied, each with the identity it was copied as
CopiedAs(id) ==
    \A i \in 1..Len(last.events) :
        last.events[i].call = "performCopyForInfo" =>
            \E k \in 1..Len(last.inst.infos) :
                last.events[i].arg = last.inst.infos[k].hash \o " as " \o id

Output ==
    LET w == SelectSeq(last.events, LAMBDA ev : ev.call = "Stdout")
    IN  [i \in 1..Len(w) |-> w[i].arg]

\* the containerManager.Create call of the last step
Created == SelectSeq(last.events, LAMBDA ev : ev.call = "Create")

\* C22: a commit that created a container wrote one warning line per warning
\* of the creation, in order, then the Running in line of the container, and
\* went on to commit that container; when the creation failed nothing was
\* written, the creation's error was returned and no commit was asked for; a
\* commit resolved by a cache hit wrote Using cache and no Running in line.
C22_WarningsSurfaced ==
    /\ (last.op = "commit" /\ Len(Created) = 1) =>
          IF Created[1].arg # ""
          THEN /\ Output = [i \in 1..Len(last.warnings) |->
                               " ---> [Warning] " \o last.warnings[i]]
                           \o <<" ---> Running in " \o Created[1].arg>>
               /\ Len(Requests(last.events)) = 1
               /\ Requests(last.events)[1].arg.ContainerID = Created[1].arg
               /\ last.err = NoErr \/ last.err = "commit: store error"
          ELSE /\ Output = <<>>
               /\ last.err = "create: failed"
               /\ Len(Requests(last.events)) = 0
               /\ state = last.pre
    /\ (LastHit /\ last.op = "commit") =>
          /\ Output = <<" ---> Using cache">>
          /\ Len(Created) = 0

C22_Witness ==
    /\ last.op = "commit"
    /\ Len(Created) = 1
    /\ Created[1].arg # ""
    /\ Len(last.warnings) = 2
    /\ Len(Output) = 3
    /\ last.err = NoErr
    /\ state.imageID # last.pre.imageID

\* path lies inside directory dir: its elements are those of dir and more
Inside(path, dir) ==
    LET p == Split(path)
        d == Split(dir)
    IN  Len(p) > Len(d) /\ SubSeq(p, 1, Len(d)) = d

\* C26: readCredentialSpecFile either returns an error having read no file,
\* or has read one file that lies inside <root>\CredentialSpecs by its path
\* elements.
C26_ReadsConfined ==
    fn.op = "readCredentialSpecFile" =>
        \/ fn.read = <<>> /\ fn.err # NoError
        \/ /\ Len(fn.read) = 1
           /\ Inside(fn.read[1], JoinPath(Root, credentialSpecFileLocation))

\* the security options of the container whose credential spec was set
SecurityOpts == fn.c.HostConfig.SecurityOpt.elems

\* what the i-th security option stands for on its own
OptionAt(i) == credentialSpecOption(fn.c, Root, SecurityOpts[i], fn.registryFails)

AppliesLast ==
    /\ fn.op = "setWindowsCredentialSpec"
    /\ ~fn.c.HostConfig.isNil
    /\ SecurityOpts = <<Opt("credentialspec", <<"raw", "://">>, <<"spec-raw">>),
                        Opt("credentialspec", <<"registry", "://">>, <<"reg1">>)>>
    /\ fn.err = NoError
    /\ fn.after.Windows.CredentialSpec = <<"spec-reg">>

\* C24: every error of setupWindowsDevices is an InvalidParameter error, and
\* every error of setWindowsCredentialSpec is one too, but for the failed
\* lookup in the config store, which is a System error.
C24_InputErrorsAreInvalidParameter ==
    /\ (fn.op = "setupWindowsDevices" /\ fn.err # NoError) =>
          fn.err.class = "InvalidParameter"
    /\ (fn.op = "setWindowsCredentialSpec" /\ fn.err # NoError) =>
          \/ fn.err.class = "InvalidParameter"
          \/ fn.err = System(Errorf("error getting value from config store"))

\* the part of it about the security options alone
CredentialErrorsAreInvalidParameter ==
    (fn.op = "setWindowsCredentialSpec" /\ fn.err # NoError) =>
        \/ fn.err.class = "InvalidParameter"
        \/ fn.err = System(Errorf("error getting value from config store"))

\* C25: setupContainerDirs calls daemon.Mount at most once, and only for a
\* Hyper-V isolated container that has not been started before and has a
\* secret or a config; when the Mount succeeded, daemon.Unmount is called
\* once, as the last call before the return, with or without an error; when
\* it failed or was not called, Unmount is not called.
C25_MountOnlyFreshHyperV ==
    fn.op = "setupContainerDirs" =>
        /\ Calls(fn.events, "Mount") <= 1
        /\ Calls(fn.events, "Mount") = 1 =>
              /\ isHyperV(fn.daemon, fn.c)
              /\ ~fn.c.HasBeenStartedBefore
              /\ fn.c.SecretReferences + fn.c.ConfigReferences > 0
        /\ IF \E i \in 1..Len(fn.events) : fn.events[i] = Ev("Mount", "ok")
           THEN /\ Calls(fn.events, "Unmount") = 1
                /\ fn.events[Len(fn.events)] = Ev("Unmount", "")
           ELSE Calls(fn.events, "Unmount") = 0

C25_Witness ==
    /\ fn.op = "setupContainerDirs"
    /\ fn.c.HostConfig.Isolation = ""
    /\ fn.daemon.defaultIsolation = "hyperv"
    /\ fn.err = Errorf("secret mounts")
    /\ Calls(fn.events, "Mount") = 1
    /\ Calls(fn.events, "Unmount") = 1

\* C27: of two calls of hashStringSlice with different lists of two or more
\* hashes, the strings digested differ.
C27_JoinDistinguishes ==
    (/\ fn.op = "hashStringSlice"
     /\ fn.before # <<>>
     /\ fn.before[1].slice # fn.slice) => fn.before[1].digested # fn.digested

\* the labels LogImageEvent finds: those of the image's config, if the image
\* is found and has a config
LabelsFound ==
    IF fn.img.err = NoError /\ ~fn.img.Config.isNil /\ ~fn.img.Config.Labels.isNil
    THEN fn.img.Config.Labels.kv
    ELSE {}

\* C28: LogImageEvent logs one image event for imageID, whose attributes are
\* the labels found, with name set to refName when refName is not empty, in
\* place of a label of that key; the image and its labels are as before.
C28_OneEventLabelsUntouched ==
    fn.op = "LogImageEvent" =>
        /\ Len(fn.logged) = 1
        /\ fn.logged[1].action = fn.action
        /\ fn.logged[1].type = "image"
        /\ fn.logged[1].actor.ID = fn.imageID
        /\ fn.logged[1].actor.Attributes =
              IF fn.refName # ""
              THEN {kv \in LabelsFound : kv[1] # "name"} \cup {<<"name", fn.refName>>}
              ELSE LabelsFound
        /\ fn.after = fn.img

C28_Witness ==
    /\ fn.op = "LogImageEvent"
    /\ fn.refName = "repo:tag"
    /\ <<"name", "from-label">> \in LabelsFound
    /\ fn.logged[1].actor.Attributes = {<<"name", "repo:tag">>, <<"k", "v">>}
    /\ fn.after.Config.Labels.kv = {<<"name", "from-label">>, <<"k", "v">>}

====
